---- MODULE Spec2Model ----
(***************************************************************************)
(* Model of the review extraction pipeline of tiktok-shop-scraper.py:      *)
(* TikTokShopScraper.scrape_product_reviews and the strategies it calls.   *)
(*                                                                         *)
(* Python strings that the code measures, strips, concatenates or hashes   *)
(* are sequences of character codes (ASCII); the fields the code only      *)
(* copies (product url, product name, market, timestamps) are TLA+         *)
(* strings.                                                                *)
(***************************************************************************)
EXTENDS Integers, Sequences, FiniteSets, TLC

VARIABLES
    pc,              \* position inside scrape_product_reviews
    hashSeed,        \* per-process key of Python's str hash
    driverLive,      \* self.driver holds a started, not yet quit, session
    cookieFile,      \* os.path.exists(self.cookies_path)
    cookieReads,     \* reads of the cookie store during this call
    cookieWrites,    \* writes of the cookie store during this call
    searches,        \* calls of find_review_section during this call
    requests,        \* operator resume requests issued (input() calls)
    acks,            \* operator acknowledgements received
    region,          \* Challenge Recovery state: "Searching", "Suspected", "Found", "Empty"
    section,         \* review_section: the region selector that matched, 0 for None
    embedded,        \* what the embedded-data script node gave ("unread" before)
    jsonReviews,     \* list returned by extract_reviews_from_embedded_json
    domPage,         \* elements matched per container selector ("unread" before)
    reviewElements,  \* list returned by find_review_elements
    idx,             \* index of the next element of the extraction loop
    domCands,        \* per processed element: the candidate appended, or NoReview
    strategyCalls,   \* per processed element: the DOM strategies invoked on it, in order
    reviews,         \* the local list `reviews`
    result,          \* the returned list ("none" before the call returns)
    raised,          \* an exception left scrape_product_reviews
    cookieFaults,    \* the cookie store operations that failed during this call
    navigated,       \* driver.get(product.url) has been attempted during this call
    sessions,        \* driver sessions started and not yet quit
    runPc,           \* position inside run_complete_scraping ("idle": no run)
    marketIdx,       \* index of the current market of the run
    products,        \* the list returned by search_lancome_products for that market
    productIdx,      \* index of the current product in that list
    allReviews,      \* the local list all_reviews
    foundCounts,     \* per market searched so far: the number of products found
    calls,           \* per call of scrape_product_reviews in the run: product and outcome
    fnPc,            \* a function applied on its own: which one, and whether it returned
    fnIn,            \* its argument
    fnOut            \* its return value

scrapeVars == <<pc, driverLive, cookieFile, cookieReads, cookieWrites,
                searches, requests, acks, region, section, embedded, jsonReviews, domPage,
                reviewElements, idx, domCands, strategyCalls, reviews, result, raised,
                cookieFaults, navigated, sessions>>

runVars == <<runPc, marketIdx, products, productIdx, allReviews, foundCounts, calls>>

fnVars == <<fnPc, fnIn, fnOut>>

vars == <<scrapeVars, runVars, hashSeed, fnVars>>

----------------------------------------------------------------------------
(* Characters and strings                                                  *)

SPACE == 32
NEWLINE == 10

IsSpace(c) == c \in {SPACE, NEWLINE, 9, 13}

S_NA == <<78, 47, 65>>                                     \* "N/A"
S_Anonymous == <<65, 110, 111, 110, 121, 109, 111, 117, 115>>  \* "Anonymous"
S_Zero == <<48>>                                           \* "0"
S_None == <<78, 111, 110, 101>>                            \* "None"
S_True == <<84, 114, 117, 101>>                            \* "True"
S_False == <<70, 97, 108, 115, 101>>                       \* "False"

RECURSIVE LStrip(_)
LStrip(s) ==
    IF s = <<>> THEN <<>>
    ELSE IF IsSpace(Head(s)) THEN LStrip(Tail(s)) ELSE s

RECURSIVE RStrip(_)
RStrip(s) ==
    IF s = <<>> THEN <<>>
    ELSE IF IsSpace(s[Len(s)]) THEN RStrip(SubSeq(s, 1, Len(s) - 1)) ELSE s

\* str.strip()
Strip(s) == RStrip(LStrip(s))

RECURSIVE DigitsOf(_)
DigitsOf(n) ==
    IF n < 10 THEN <<48 + n>>
    ELSE Append(DigitsOf(n \div 10), 48 + (n % 10))

\* f"{n}" / str(n) of a non-negative integer
IntToStr(n) == DigitsOf(n)

----------------------------------------------------------------------------
(* Python's hash(str): a function of the string's content and of a key     *)
(* drawn once per process (hash randomisation).  The width is kept below   *)
(* the integers of the model checker.                                      *)

HashWidth == 1048576
IdModulus == 1000000

RECURSIVE HashFrom(_, _)
HashFrom(h, s) ==
    IF s = <<>> THEN h
    ELSE HashFrom((h * 33 + Head(s)) % HashWidth, Tail(s))

\* hash(s): the argument is evaluated once, then folded
PyHash(seed, s) == CHOOSE h \in {HashFrom(seed, str) : str \in {s}} : TRUE

\* f"{hash(x) % 1000000}"
HashId(seed, s) == IntToStr(PyHash(seed, s) % IdModulus)

----------------------------------------------------------------------------
(* The product handed to scrape_product_reviews (a ProductInfo).           *)

S_Yes == <<89, 101, 115>>                                  \* "Yes"
ProductUrl == <<104, 116, 116, 112, 115, 58, 47, 47, 116, 47, 49>>   \* "https://t/1"
ProductName == <<76, 97, 110, 99, 111, 109, 101>>          \* "Lancome"
ProductMarket == <<118, 110>>                              \* "vn"
NowIso == <<50, 48, 50, 52>>                               \* datetime.now().isoformat()

\* for market in ['vietnam', 'saudi_arabia'], line 797
M_Vietnam == <<118, 105, 101, 116, 110, 97, 109>>          \* "vietnam"
M_SaudiArabia == <<115, 97, 117, 100, 105, 95, 97, 114, 97, 98, 105, 97>>  \* "saudi_arabia"
RunMarkets == <<M_Vietnam, M_SaudiArabia>>

\* the url of the n-th product found in market m
ProductUrlOf(m, n) ==
    SubSeq(ProductUrl, 1, Len(ProductUrl) - 1) \o IntToStr(m) \o IntToStr(n)

\* The product of the call: the one handed in, or, within a run, the current
\* element of the list search_lancome_products returned for the market.
product ==
    IF runPc = "idle"
    THEN [url |-> ProductUrl, name |-> ProductName, market |-> ProductMarket]
    ELSE [url |-> ProductUrlOf(marketIdx, products[productIdx]), name |-> ProductName,
          market |-> RunMarkets[marketIdx]]

\* ReviewInfo(...)
ReviewInfo(purl, pname, rname, rating, text, date, verified, helpful, rid, market) ==
    [product_url |-> purl, product_name |-> pname, reviewer_name |-> rname,
     rating |-> rating, review_text |-> text, review_date |-> date,
     verified_purchase |-> verified, helpful_votes |-> helpful,
     review_id |-> rid, country_market |-> market, scrape_timestamp |-> NowIso]

----------------------------------------------------------------------------
(* Parsed JSON documents (the result of json.loads): tagged trees.         *)
(* A dict is its sequence of <<key, value>> pairs in document order.       *)

JNull == [t |-> "null"]
JStr(s) == [t |-> "str", v |-> s]
JNum(n) == [t |-> "num", v |-> n]
JBool(b) == [t |-> "bool", v |-> b]
JList(items) == [t |-> "list", items |-> items]
JDict(kv) == [t |-> "dict", kv |-> kv]

\* Python truthiness of a parsed value
Truthy(v) ==
    CASE v.t = "null" -> FALSE
      [] v.t = "str" -> v.v # <<>>
      [] v.t = "num" -> v.v # 0
      [] v.t = "bool" -> v.v
      [] v.t = "list" -> v.items # <<>>
      [] v.t = "dict" -> v.kv # <<>>

\* key in d
HasKey(d, key) == \E i \in 1..Len(d.kv) : d.kv[i][1] = key

\* d.get(key): None when the key is absent
Get(d, key) ==
    IF HasKey(d, key)
    THEN d.kv[CHOOSE i \in 1..Len(d.kv) : d.kv[i][1] = key][2]
    ELSE JNull

\* list(d.values())
Values(d) == [i \in 1..Len(d.kv) |-> d.kv[i][2]]

\* str(v) of a scalar
StrOf(v) ==
    CASE v.t = "str" -> v.v
      [] v.t = "num" -> IntToStr(v.v)
      [] v.t = "bool" -> IF v.v THEN S_True ELSE S_False
      [] v.t = "null" -> S_None

RECURSIVE find_review_info_node(_)
RECURSIVE FirstFound(_)

\* the loops "for value in ...: found = find(value); if found: return found"
FirstFound(nodes) ==
    IF nodes = <<>> THEN JNull
    ELSE LET found == find_review_info_node(Head(nodes))
         IN IF Truthy(found) THEN found ELSE FirstFound(Tail(nodes))

find_review_info_node(node) ==
    IF node.t = "dict"
    THEN IF HasKey(node, "review_info") /\ Get(node, "review_info").t = "dict"
         THEN Get(node, "review_info")
         ELSE FirstFound(Values(node))
    ELSE IF node.t = "list" THEN FirstFound(node.items)
    ELSE JNull

----------------------------------------------------------------------------
(* Embedded-data strategy                                                  *)

IsDigits(s) == s # <<>> /\ \A i \in 1..Len(s) : s[i] \in 48..57

\* datetime.fromtimestamp(ms / 1000).isoformat(): a rendering of the seconds
IsoOf(ms) == <<84>> \o IntToStr(ms \div 1000)

RECURSIVE ParseInt(_)
ParseInt(s) == IF s = <<>> THEN 0 ELSE ParseInt(SubSeq(s, 1, Len(s) - 1)) * 10 + (s[Len(s)] - 48)

\* lines 715-721: review_date from item.get("review_time")
ReviewDateOf(item) ==
    LET review_time == Get(item, "review_time")
    IN IF ~Truthy(review_time) THEN S_NA
       ELSE IF review_time.t = "num" THEN IsoOf(review_time.v)
       ELSE IF review_time.t = "str" /\ IsDigits(Strip(review_time.v))
            THEN IsoOf(ParseInt(Strip(review_time.v)))
       ELSE StrOf(review_time)

\* x or default
OrElse(v, default) == IF Truthy(v) THEN StrOf(v) ELSE default

\* a record whose verified_purchase tells that the item carries the flag,
\* whatever the flag's value
ItemRecord_FlagPresent(seed, item, review_text) ==
    ReviewInfo(product.url,
               OrElse(Get(item, "product_name"), product.name),
               OrElse(Get(item, "reviewer_name"), S_Anonymous),
               IF HasKey(item, "review_rating")
               THEN StrOf(Get(item, "review_rating")) ELSE S_NA,
               review_text,
               ReviewDateOf(item),
               IF HasKey(item, "is_verified_purchase") THEN S_Yes ELSE S_NA,
               S_Zero,
               OrElse(Get(item, "review_id"), HashId(seed, review_text)),
               OrElse(Get(item, "review_country"), product.market))

\* lines 711-741: the record built from one item whose review_text is usable
ItemRecord(seed, item, review_text) ==
    ReviewInfo(product.url,
               OrElse(Get(item, "product_name"), product.name),
               OrElse(Get(item, "reviewer_name"), S_Anonymous),
               IF HasKey(item, "review_rating")
               THEN StrOf(Get(item, "review_rating")) ELSE S_NA,
               review_text,
               ReviewDateOf(item),
               IF Truthy(Get(item, "is_verified_purchase")) THEN S_Yes ELSE S_NA,
               S_Zero,
               OrElse(Get(item, "review_id"), HashId(seed, review_text)),
               OrElse(Get(item, "review_country"), product.market))

\* The loop over product_reviews.  ok = FALSE: an exception left the loop.
RECURSIVE ItemsLoop(_, _, _)
ItemsLoop(seed, items, extracted) ==
    IF items = <<>> THEN [ok |-> TRUE, out |-> extracted]
    ELSE LET item == Head(items)
         IN IF item.t # "dict" THEN [ok |-> FALSE, out |-> <<>>]
            ELSE LET raw == Get(item, "review_text")
                 IN IF ~Truthy(raw) THEN ItemsLoop(seed, Tail(items), extracted)
                    ELSE IF raw.t # "str" THEN [ok |-> FALSE, out |-> <<>>]
                    ELSE IF Strip(raw.v) = <<>>
                         THEN ItemsLoop(seed, Tail(items), extracted)
                    ELSE ItemsLoop(seed, Tail(items),
                                   Append(extracted, ItemRecord(seed, item, Strip(raw.v))))

\* What the script node gave: the evaluation threw, there is no node (or it is
\* empty), its text is not JSON, or its text parses to doc.
ScriptThrows == [kind |-> "throws"]
ScriptAbsent == [kind |-> "absent"]
ScriptInvalid == [kind |-> "invalid"]
ScriptDoc(doc) == [kind |-> "doc", doc |-> doc]

\* The embedded strategy failed internally (its except clause ran).
EmbeddedFailed(seed, e) ==
    \/ e.kind \in {"throws", "invalid"}
    \/ /\ e.kind = "doc"
       /\ LET review_info == find_review_info_node(e.doc)
          IN /\ Truthy(review_info)
             /\ LET pr == IF HasKey(review_info, "product_reviews")
                          THEN Get(review_info, "product_reviews") ELSE JList(<<>>)
                IN \/ pr.t \in {"null", "num", "bool"}
                   \/ pr.t \in {"str", "dict"} /\ Truthy(pr)
                   \/ pr.t = "list" /\ ~ItemsLoop(seed, pr.items, <<>>).ok

extract_reviews_from_embedded_json(seed, e) ==
    IF e.kind # "doc" THEN <<>>
    ELSE LET review_info == find_review_info_node(e.doc)
         IN IF ~Truthy(review_info) THEN <<>>
            ELSE LET pr == IF HasKey(review_info, "product_reviews")
                           THEN Get(review_info, "product_reviews") ELSE JList(<<>>)
                 IN IF pr.t # "list" THEN <<>>
                    ELSE LET r == ItemsLoop(seed, pr.items, <<>>)
                         IN IF r.ok THEN r.out ELSE <<>>

----------------------------------------------------------------------------
(* DOM side: review region, review containers, structured extraction       *)

\* A review container as the driver shows it.  For each field, what each of
\* the field's three selectors finds inside the container (find_element
\* raising is NoElem); visible is element.text; structRaises / textRaises say
\* that an exception reaches the outer handler of extract_review_info /
\* extract_review_info_fallback.
NoElem == [present |-> FALSE]
Elem(text) == [present |-> TRUE, text |-> text, attr |-> JNull]
ElemAttr(text, attr) == [present |-> TRUE, text |-> text, attr |-> JStr(attr)]
NoMatch == <<NoElem, NoElem, NoElem>>

Container(name, rating, text, date, helpful, visible, structRaises, textRaises) ==
    [name |-> name, rating |-> rating, text |-> text, date |-> date,
     helpful |-> helpful, visible |-> visible,
     structRaises |-> structRaises, textRaises |-> textRaises]

NoReview == [none |-> TRUE]
IsReview(r) == "review_id" \in DOMAIN r

\* the selector loop without its break: the last matching pattern wins
RECURSIVE ResolveText_LastMatch(_, _)
ResolveText_LastMatch(matches, default) ==
    IF matches = <<>> THEN default
    ELSE IF Head(matches).present
         THEN ResolveText_LastMatch(Tail(matches), Strip(Head(matches).text))
    ELSE ResolveText_LastMatch(Tail(matches), default)

\* for selector in xxx_selectors: try: e = find_element(selector);
\*     value = e.text.strip(); break   except: continue
RECURSIVE ResolveText(_, _)
ResolveText(matches, default) ==
    IF matches = <<>> THEN default
    ELSE IF Head(matches).present THEN Strip(Head(matches).text)
    ELSE ResolveText(Tail(matches), default)

\* a rating loop that takes the element's text and the attribute only for an
\* element without text
RECURSIVE ResolveRating_TextFirst(_, _)
ResolveRating_TextFirst(matches, default) ==
    IF matches = <<>> THEN default
    ELSE IF Head(matches).present
         THEN IF Strip(Head(matches).text) # <<>> THEN Strip(Head(matches).text)
              ELSE IF Truthy(Head(matches).attr) THEN Head(matches).attr.v
              ELSE <<>>
    ELSE ResolveRating_TextFirst(Tail(matches), default)

\* the rating loop: get_attribute('data-rating') or text.strip()
RECURSIVE ResolveRating(_, _)
ResolveRating(matches, default) ==
    IF matches = <<>> THEN default
    ELSE IF Head(matches).present
         THEN IF Truthy(Head(matches).attr) THEN Head(matches).attr.v
              ELSE Strip(Head(matches).text)
    ELSE ResolveRating(Tail(matches), default)

extract_review_info(seed, element) ==
    IF element.structRaises THEN NoReview
    ELSE LET reviewer_name == ResolveText(element.name, S_Anonymous)
             rating == ResolveRating(element.rating, S_NA)
             review_text == ResolveText(element.text, <<>>)
             review_date == ResolveText(element.date, S_NA)
             helpful_votes == ResolveText(element.helpful, S_Zero)
             review_id == HashId(seed, reviewer_name \o review_text \o review_date)
         IN ReviewInfo(product.url, product.name, reviewer_name, rating, review_text,
                       review_date, S_NA, helpful_votes, review_id, product.market)

----------------------------------------------------------------------------
(* Free-text fallback                                                      *)

IsLineBreak(c) == c \in {NEWLINE, 13}

\* text.splitlines(), as far as its non-empty lines go
RECURSIVE SplitLines(_, _)
SplitLines(s, cur) ==
    IF s = <<>> THEN <<cur>>
    ELSE IF IsLineBreak(Head(s)) THEN <<cur>> \o SplitLines(Tail(s), <<>>)
    ELSE SplitLines(Tail(s), Append(cur, Head(s)))

\* [line.strip() for line in lines if line.strip()]
RECURSIVE StripNonEmpty(_)
StripNonEmpty(ls) ==
    IF ls = <<>> THEN <<>>
    ELSE IF Strip(Head(ls)) = <<>> THEN StripNonEmpty(Tail(ls))
    ELSE <<Strip(Head(ls))>> \o StripNonEmpty(Tail(ls))

\* a maximum that keeps the last of the longest
RECURSIVE MaxByLen_LastOfLongest(_, _)
MaxByLen_LastOfLongest(ls, best) ==
    IF ls = <<>> THEN best
    ELSE MaxByLen_LastOfLongest(Tail(ls),
                                IF Len(Head(ls)) >= Len(best) THEN Head(ls) ELSE best)

\* max(lines, key=len): the first of the longest
RECURSIVE MaxByLen(_, _)
MaxByLen(ls, best) ==
    IF ls = <<>> THEN best
    ELSE MaxByLen(Tail(ls), IF Len(Head(ls)) > Len(best) THEN Head(ls) ELSE best)

FallbackMinText == 15
MinReviewText == 10

\* the test of the whole text's length is left out
extract_review_info_fallback_LineTestOnly(seed, element) ==
    IF element.textRaises THEN NoReview
    ELSE LET text == Strip(element.visible)
             lines == StripNonEmpty(SplitLines(text, <<>>))
             review_text == IF lines # <<>> THEN MaxByLen(Tail(lines), Head(lines))
                            ELSE text
         IN IF Len(review_text) < MinReviewText THEN NoReview
            ELSE LET reviewer_name == IF lines # <<>> THEN Head(lines)
                                      ELSE S_Anonymous
                 IN ReviewInfo(product.url, product.name, reviewer_name, S_NA,
                               review_text, S_NA, S_NA, S_Zero,
                               HashId(seed, reviewer_name \o review_text),
                               product.market)

\* lines 614-644
extract_review_info_fallback(seed, element) ==
    IF element.textRaises THEN NoReview
    ELSE LET text == Strip(element.visible)
         IN IF Len(text) < FallbackMinText THEN NoReview
            ELSE LET lines == StripNonEmpty(SplitLines(text, <<>>))
                     review_text == IF lines # <<>> THEN MaxByLen(Tail(lines), Head(lines))
                                    ELSE text
                 IN IF Len(review_text) < MinReviewText THEN NoReview
                    ELSE LET reviewer_name == IF lines # <<>> THEN Head(lines)
                                              ELSE S_Anonymous
                         IN ReviewInfo(product.url, product.name, reviewer_name, S_NA,
                                       review_text, S_NA, S_NA, S_Zero,
                                       HashId(seed, reviewer_name \o review_text),
                                       product.market)

\* lines 389-398: what one pass of the loop appends for an element
ElementCandidate(seed, element) ==
    LET review == extract_review_info(seed, element)
    IN IF IsReview(review) THEN review
       ELSE extract_review_info_fallback(seed, element)

\* a loop that hands every element to both strategies
StrategyCalls_Both(seed, element) == <<"structured", "fallback">>

\* lines 389-398: the strategies one pass of the loop invokes, in order:
\* extract_review_info, then, past "if review: ... continue", the fallback
StrategyCalls(seed, element) ==
    IF IsReview(extract_review_info(seed, element)) THEN <<"structured">>
    ELSE <<"structured", "fallback">>

----------------------------------------------------------------------------
(* Selector searches                                                       *)

NumRegionSelectors == 7
NumElementSelectors == 10

\* find_review_section: matching is the set of region selectors that match
\* something on the page; the result is the selector whose element is
\* returned, 0 for None.
RECURSIVE FindSectionFrom(_, _)
FindSectionFrom(matching, i) ==
    IF i > NumRegionSelectors THEN 0
    ELSE IF i \in matching THEN i
    ELSE FindSectionFrom(matching, i + 1)

find_review_section(matching) == FindSectionFrom(matching, 1)

\* The inner loop of find_review_elements over one selector's elements.
RECURSIVE AddUnseen(_, _)
AddUnseen(found, elements) ==
    IF elements = <<>> THEN found
    ELSE AddUnseen(IF \E k \in 1..Len(found) : found[k] = Head(elements)
                   THEN found ELSE Append(found, Head(elements)),
                   Tail(elements))

\* the search stopping at the first selector that yields elements
RECURSIVE FirstYieldFrom(_, _)
FirstYieldFrom(page, i) ==
    IF i > NumElementSelectors THEN <<>>
    ELSE IF page[i] # <<>> THEN page[i]
    ELSE FirstYieldFrom(page, i + 1)

find_review_elements_FirstOnly(page) == FirstYieldFrom(page, 1)

\* The outer loop of find_review_elements: page[i] is the list of element ids
\* that selector i matches, in document order (empty when find_elements raises).
RECURSIVE FindElementsFrom(_, _, _)
FindElementsFrom(page, i, found) ==
    IF i > NumElementSelectors THEN found
    ELSE FindElementsFrom(page, i + 1, AddUnseen(found, page[i]))

\* find_review_elements
find_review_elements(page) == FindElementsFrom(page, 1, <<>>)

----------------------------------------------------------------------------
(* Deduplication, lines 409-413                                            *)

\* a merge in which the first record of an id is the one kept
DictPut_KeepFirst(d, r) ==
    IF \E k \in 1..Len(d) : d[k].review_id = r.review_id THEN d ELSE Append(d, r)

\* deduped[review.review_id] = review, on an insertion-ordered dict
DictPut(d, r) ==
    IF \E k \in 1..Len(d) : d[k].review_id = r.review_id
    THEN [k \in 1..Len(d) |-> IF d[k].review_id = r.review_id THEN r ELSE d[k]]
    ELSE Append(d, r)

RECURSIVE DedupFrom(_, _)
DedupFrom(d, rs) == IF rs = <<>> THEN d ELSE DedupFrom(DictPut(d, Head(rs)), Tail(rs))

\* the merged list returned as it is
Deduplicate_NoMerge(rs) == rs

\* list(deduped.values())
Deduplicate(rs) == DedupFrom(<<>>, rs)

----------------------------------------------------------------------------
(* Inputs: what the page can show                                          *)

N_Alice == <<65, 108, 105, 99, 101>>                       \* "Alice"
N_Bob == <<66, 111, 98>>                                   \* "Bob"
T_Great == <<71, 114, 101, 97, 116, 32, 112, 114, 111, 100, 117, 99, 116, 33>>  \* "Great product!"
T_Love == <<76, 111, 118, 101, 32, 105, 116, 32, 115, 111, 32, 109, 117, 99, 104>>  \* "Love it so much"
T_Short == <<83, 104, 111, 114, 116>>                      \* "Short"
D_Aug == <<50, 48, 50, 52, 45, 48, 56, 45, 48, 49>>        \* "2024-08-01"
R_Five == <<53>>                                           \* "5"
R_FiveStars == <<53, 32, 115, 116, 97, 114, 115>>          \* "5 stars"
H_Twelve == <<49, 50>>                                     \* "12"
P_77 == <<114, 55, 55>>                                    \* "r77"

First(e) == <<e, NoElem, NoElem>>
Second(e) == <<NoElem, e, NoElem>>
Third(e) == <<NoElem, NoElem, e>>

\* The review containers of the page, by element id, in document order.
Containers == <<
    \* 1: every field by its first selector, no date
    Container(First(Elem(N_Alice)), First(ElemAttr(R_FiveStars, R_Five)),
              First(Elem(<<SPACE>> \o T_Great \o <<NEWLINE>>)), NoMatch,
              First(Elem(H_Twelve)), N_Alice \o <<NEWLINE>> \o T_Great, FALSE, FALSE),
    \* 2: a review text below the minimum
    Container(First(Elem(N_Bob)), NoMatch, Second(Elem(T_Short)), First(Elem(D_Aug)),
              NoMatch, N_Bob \o <<NEWLINE>> \o T_Short, FALSE, FALSE),
    \* 3: no structured field at all, only visible text
    Container(NoMatch, NoMatch, NoMatch, NoMatch, NoMatch,
              <<SPACE>> \o N_Bob \o <<NEWLINE>> \o T_Love \o <<SPACE, NEWLINE>>, FALSE, FALSE),
    \* 4: structured extraction raises, visible text usable
    Container(NoMatch, NoMatch, NoMatch, NoMatch, NoMatch,
              N_Bob \o <<NEWLINE, NEWLINE>> \o T_Love, TRUE, FALSE),
    \* 5: both extractions raise
    Container(NoMatch, NoMatch, NoMatch, NoMatch, NoMatch, <<>>, TRUE, TRUE),
    \* 6: the content of 1 through later selectors, another rating
    Container(Second(Elem(N_Alice)), Third(Elem(R_FiveStars)), Third(Elem(T_Great)),
              NoMatch, NoMatch, N_Alice \o <<NEWLINE>> \o T_Great, FALSE, FALSE),
    \* 7: name and date elements with empty text around the text of 1
    Container(First(Elem(<<>>)), NoMatch, First(Elem(T_Great)), Third(Elem(<<SPACE>>)),
              NoMatch, T_Great, FALSE, FALSE)
>>

ContainerIds == DOMAIN Containers

\* At most MaxElems containers on a page.
MaxElems == 2

RECURSIVE SetToSeq(_)
SetToSeq(S) ==
    IF S = {} THEN <<>>
    ELSE LET m == CHOOSE x \in S : \A y \in S : x <= y
         IN <<m>> \o SetToSeq(S \ {m})

\* '.review-item' is selector 1 and '[class*="review"]' selector 8 of
\* find_review_elements: an element the first matches is matched by the other.
ItemSelector == 1
ClassSelector == 8

PageOf(items, classed) ==
    [i \in 1..NumElementSelectors |->
        IF i = ItemSelector THEN SetToSeq(items)
        ELSE IF i = ClassSelector THEN SetToSeq(classed)
        ELSE <<>>]

Pages ==
    {PageOf(items, classed) :
        <<items, classed>> \in
            {pr \in (SUBSET ContainerIds) \X (SUBSET ContainerIds) :
                pr[1] \subseteq pr[2] /\ Cardinality(pr[2]) <= MaxElems}}

\* The region selectors that match, per page state.
RegionPages == {{}, {3}, {1, 3}}

ItemAlice == JDict(<< <<"review_text", JStr(<<SPACE>> \o T_Great)>>,
                      <<"reviewer_name", JStr(N_Alice)>>,
                      <<"review_rating", JNum(5)>> >>)
ItemProvider == JDict(<< <<"review_id", JStr(P_77)>>,
                         <<"review_text", JStr(T_Love)>>,
                         <<"reviewer_name", JStr(N_Bob)>>,
                         <<"review_time", JNum(86400000)>>,
                         <<"is_verified_purchase", JBool(TRUE)>> >>)
ItemShort == JDict(<< <<"review_text", JStr(T_Short)>>,
                      <<"review_rating", JNull>> >>)
ItemAliceAgain == JDict(<< <<"review_text", JStr(T_Great)>>,
                           <<"reviewer_name", JStr(N_Bob)>> >>)

ReviewInfoNode(items) == JDict(<< <<"product_reviews", JList(items)>> >>)

\* review_info at depth 4, inside a list of dicts
Nested(review_info) ==
    JDict(<< <<"loaderData", JList(<< JDict(<< <<"page", JNum(1)>> >>),
                                      JDict(<< <<"review_info", review_info>> >>) >>)>> >>)

EmbeddedPool ==
    {ScriptThrows, ScriptAbsent, ScriptInvalid,
     ScriptDoc(Nested(ReviewInfoNode(<<ItemAlice, ItemProvider>>))),
     ScriptDoc(Nested(ReviewInfoNode(<<ItemAlice, JStr(T_Great)>>))),
     ScriptDoc(Nested(ReviewInfoNode(<<ItemShort, ItemAlice, ItemAliceAgain>>)))}

Seeds == {5381, 77}

\* What the pages show: anything of the above to a call on its own, a few of
\* them to the calls of a run.
RegionPagesShown == IF runPc = "idle" THEN RegionPages ELSE {{}, {3}}
EmbeddedShown == IF runPc = "idle" THEN EmbeddedPool ELSE {ScriptAbsent}
PagesShown == IF runPc = "idle" THEN Pages ELSE {PageOf({}, {}), PageOf({1}, {1})}

\* persist_session, the constructor's default
PersistSession == TRUE

\* How load_cookies_for_domain can end when a cookie file exists: the cookies
\* are loaded; the file is opened and cannot be read or parsed; the browser
\* rejects a cookie read from it.  Within a run of several products the cookie
\* store does not fail.
LoadOutcomes ==
    IF runPc = "idle" THEN {"loaded", "unreadable", "rejected"} ELSE {"loaded"}

\* How save_cookies can end: the file is written, or an exception (reading the
\* browser's cookies, creating or writing the file) is caught before that.
SaveOutcomes ==
    IF runPc = "idle" THEN {"saved", "write_failed"} ELSE {"saved"}

----------------------------------------------------------------------------
(* scrape_product_reviews, statement by statement                          *)

Unread == [kind |-> "unread"]

Init ==
    /\ pc = "start"
    /\ hashSeed \in Seeds
    /\ driverLive = FALSE
    /\ cookieFile \in BOOLEAN
    /\ cookieReads = 0
    /\ cookieWrites = 0
    /\ searches = 0
    /\ requests = 0
    /\ acks = 0
    /\ region = "Searching"
    /\ section = 0
    /\ embedded = Unread
    /\ jsonReviews = <<>>
    /\ domPage = <<>>
    /\ reviewElements = <<>>
    /\ idx = 0
    /\ domCands = <<>>
    /\ strategyCalls = <<>>
    /\ reviews = <<>>
    /\ result = <<>>
    /\ raised = FALSE
    /\ cookieFaults = {}
    /\ navigated = FALSE
    /\ sessions = 0
    /\ runPc = "idle"
    /\ marketIdx = 0
    /\ products = <<>>
    /\ productIdx = 0
    /\ allReviews = <<>>
    /\ foundCounts = <<>>
    /\ calls = <<>>
    /\ fnPc = "none"
    /\ fnIn = <<>>
    /\ fnOut = <<>>

\* line 349: self.driver = self.setup_driver(product.market), outside the try
SetupDriver ==
    /\ pc = "start"
    /\ \/ /\ driverLive' = TRUE
          /\ sessions' = sessions + 1
          /\ pc' = "load_cookies"
          /\ raised' = raised
       \/ /\ driverLive' = FALSE
          /\ sessions' = sessions
          /\ pc' = "raised"
          /\ raised' = TRUE
    /\ UNCHANGED <<hashSeed, cookieFile, cookieReads, cookieWrites, searches, requests,
                   acks, region, section, embedded, jsonReviews, domPage,
                   reviewElements, idx, domCands, reviews, result>>
    /\ UNCHANGED fnVars
    /\ UNCHANGED <<cookieFaults, navigated>>
    /\ UNCHANGED runVars
    /\ UNCHANGED strategyCalls

\* a load_cookies_for_domain whose failure reaches the except clause of
\* scrape_product_reviews
LoadCookies_Propagates ==
    /\ pc = "load_cookies"
    /\ IF PersistSession /\ driverLive /\ cookieFile
       THEN \E outcome \in LoadOutcomes :
                /\ cookieReads' = cookieReads + 1
                /\ cookieFaults' = IF outcome = "loaded" THEN cookieFaults
                                   ELSE cookieFaults \cup {"load"}
                /\ pc' = IF outcome = "loaded" THEN "navigate" ELSE "except"
       ELSE /\ UNCHANGED <<cookieReads, cookieFaults>>
            /\ pc' = "navigate"
    /\ UNCHANGED <<hashSeed, driverLive, cookieFile, cookieWrites, searches, requests,
                   acks, region, section, embedded, jsonReviews, domPage,
                   reviewElements, idx, domCands, reviews, result, raised>>
    /\ UNCHANGED fnVars
    /\ UNCHANGED strategyCalls
    /\ UNCHANGED <<navigated, sessions>>
    /\ UNCHANGED runVars

\* line 352: load_cookies_for_domain; its failures stay inside it
LoadCookies ==
    /\ pc = "load_cookies"
    /\ IF PersistSession /\ driverLive /\ cookieFile
       THEN \E outcome \in LoadOutcomes :
                /\ cookieReads' = cookieReads + 1
                /\ cookieFaults' = IF outcome = "loaded" THEN cookieFaults
                                   ELSE cookieFaults \cup {"load"}
       ELSE UNCHANGED <<cookieReads, cookieFaults>>
    /\ pc' = "navigate"
    /\ UNCHANGED <<hashSeed, driverLive, cookieFile, cookieWrites, searches, requests,
                   acks, region, section, embedded, jsonReviews, domPage,
                   reviewElements, idx, domCands, reviews, result, raised>>
    /\ UNCHANGED fnVars
    /\ UNCHANGED <<navigated, sessions>>
    /\ UNCHANGED runVars
    /\ UNCHANGED strategyCalls

\* lines 353-358: self.driver.get(product.url) returns or throws
Navigate ==
    /\ pc = "navigate"
    /\ \E ok \in BOOLEAN : pc' = IF ok THEN "search1" ELSE "except"
    /\ navigated' = TRUE
    /\ UNCHANGED <<hashSeed, driverLive, cookieFile, cookieReads, cookieWrites, searches,
                   requests, acks, region, section, embedded, jsonReviews, domPage,
                   reviewElements, idx, domCands, reviews, result, raised>>
    /\ UNCHANGED fnVars
    /\ UNCHANGED <<cookieFaults, sessions>>
    /\ UNCHANGED runVars
    /\ UNCHANGED strategyCalls

\* lines 360-361
FindSection1 ==
    /\ pc = "search1"
    /\ \E matching \in RegionPagesShown :
          /\ section' = find_review_section(matching)
          /\ region' = IF section' # 0 THEN "Found" ELSE "Suspected"
          /\ pc' = IF section' # 0 THEN "scroll" ELSE "request"
    /\ searches' = searches + 1
    /\ UNCHANGED <<hashSeed, driverLive, cookieFile, cookieReads, cookieWrites, requests,
                   acks, embedded, jsonReviews, domPage, reviewElements, idx, domCands,
                   reviews, result, raised>>
    /\ UNCHANGED fnVars
    /\ UNCHANGED <<cookieFaults, navigated, sessions>>
    /\ UNCHANGED runVars
    /\ UNCHANGED strategyCalls

\* lines 362-365: the warning is logged and input() is entered
RequestResume ==
    /\ pc = "request"
    /\ requests' = requests + 1
    /\ pc' = "waiting"
    /\ UNCHANGED <<hashSeed, driverLive, cookieFile, cookieReads, cookieWrites, searches,
                   acks, region, section, embedded, jsonReviews, domPage, reviewElements,
                   idx, domCands, reviews, result, raised>>
    /\ UNCHANGED fnVars
    /\ UNCHANGED <<cookieFaults, navigated, sessions>>
    /\ UNCHANGED runVars
    /\ UNCHANGED strategyCalls

\* line 365-369: the operator presses Enter and input() returns
OperatorAck ==
    /\ pc = "waiting"
    /\ acks' = acks + 1
    /\ pc' = "search2"
    /\ UNCHANGED <<hashSeed, driverLive, cookieFile, cookieReads, cookieWrites, searches,
                   requests, region, section, embedded, jsonReviews, domPage,
                   reviewElements, idx, domCands, reviews, result, raised>>
    /\ UNCHANGED fnVars
    /\ UNCHANGED <<cookieFaults, navigated, sessions>>
    /\ UNCHANGED runVars
    /\ UNCHANGED strategyCalls

\* line 365: input() raises (standard input is closed)
InputFails ==
    /\ pc = "waiting"
    /\ pc' = "except"
    /\ UNCHANGED <<hashSeed, driverLive, cookieFile, cookieReads, cookieWrites, searches,
                   requests, acks, region, section, embedded, jsonReviews, domPage,
                   reviewElements, idx, domCands, reviews, result, raised>>
    /\ UNCHANGED fnVars
    /\ UNCHANGED <<cookieFaults, navigated, sessions>>
    /\ UNCHANGED runVars
    /\ UNCHANGED strategyCalls

\* a retry that asks the operator again when it finds no region
FindSection2_Again ==
    /\ pc = "search2"
    /\ \E matching \in RegionPagesShown :
          /\ section' = find_review_section(matching)
          /\ region' = IF section' # 0 THEN "Found" ELSE "Suspected"
          /\ pc' = IF section' # 0 THEN "scroll" ELSE "request"
    /\ searches' = searches + 1
    /\ UNCHANGED <<hashSeed, driverLive, cookieFile, cookieReads, cookieWrites, requests,
                   acks, embedded, jsonReviews, domPage, reviewElements, idx, domCands,
                   reviews, result, raised>>
    /\ UNCHANGED fnVars
    /\ UNCHANGED <<cookieFaults, navigated, sessions>>
    /\ UNCHANGED runVars
    /\ UNCHANGED strategyCalls

\* a retry after which the strategies run whatever it found
FindSection2_RunsStrategies ==
    /\ pc = "search2"
    /\ \E matching \in RegionPagesShown :
          /\ section' = find_review_section(matching)
          /\ region' = IF section' # 0 THEN "Found" ELSE "Empty"
    /\ pc' = "scroll"
    /\ searches' = searches + 1
    /\ UNCHANGED <<hashSeed, driverLive, cookieFile, cookieReads, cookieWrites, requests,
                   acks, embedded, jsonReviews, domPage, reviewElements, idx, domCands,
                   reviews, result, raised>>
    /\ UNCHANGED fnVars
    /\ UNCHANGED <<cookieFaults, navigated, sessions>>
    /\ UNCHANGED runVars
    /\ UNCHANGED strategyCalls

\* lines 370-374: the retry; "return []" goes through the finally clause
FindSection2 ==
    /\ pc = "search2"
    /\ \E matching \in RegionPagesShown :
          /\ section' = find_review_section(matching)
          /\ region' = IF section' # 0 THEN "Found" ELSE "Empty"
          /\ pc' = IF section' # 0 THEN "scroll" ELSE "finally"
    /\ searches' = searches + 1
    /\ reviews' = IF section' # 0 THEN reviews ELSE <<>>
    /\ UNCHANGED <<hashSeed, driverLive, cookieFile, cookieReads, cookieWrites, requests,
                   acks, embedded, jsonReviews, domPage, reviewElements, idx, domCands,
                   result, raised>>
    /\ UNCHANGED fnVars
    /\ UNCHANGED <<cookieFaults, navigated, sessions>>
    /\ UNCHANGED runVars
    /\ UNCHANGED strategyCalls

\* line 377: scroll_to_load_reviews; its failures stay inside it
ScrollToLoad ==
    /\ pc = "scroll"
    /\ pc' = "embedded"
    /\ UNCHANGED <<hashSeed, driverLive, cookieFile, cookieReads, cookieWrites, searches,
                   requests, acks, region, section, embedded, jsonReviews, domPage,
                   reviewElements, idx, domCands, reviews, result, raised>>
    /\ UNCHANGED fnVars
    /\ UNCHANGED <<cookieFaults, navigated, sessions>>
    /\ UNCHANGED runVars
    /\ UNCHANGED strategyCalls

\* an embedded-data strategy whose internal failure reaches the caller
ExtractEmbedded_Propagates ==
    /\ pc = "embedded"
    /\ \E e \in EmbeddedShown :
          /\ embedded' = e
          /\ jsonReviews' = extract_reviews_from_embedded_json(hashSeed, e)
          /\ pc' = IF EmbeddedFailed(hashSeed, e) THEN "except" ELSE "find_elements"
    /\ reviews' = reviews \o jsonReviews'
    /\ UNCHANGED <<hashSeed, driverLive, cookieFile, cookieReads, cookieWrites, searches,
                   requests, acks, region, section, domPage, reviewElements, idx,
                   domCands, result, raised>>
    /\ UNCHANGED fnVars
    /\ UNCHANGED <<cookieFaults, navigated, sessions>>
    /\ UNCHANGED runVars
    /\ UNCHANGED strategyCalls

\* lines 380-383
ExtractEmbedded ==
    /\ pc = "embedded"
    /\ \E e \in EmbeddedShown :
          /\ embedded' = e
          /\ jsonReviews' = extract_reviews_from_embedded_json(hashSeed, e)
    /\ reviews' = reviews \o jsonReviews'
    /\ pc' = "find_elements"
    /\ UNCHANGED <<hashSeed, driverLive, cookieFile, cookieReads, cookieWrites, searches,
                   requests, acks, region, section, domPage, reviewElements, idx,
                   domCands, result, raised>>
    /\ UNCHANGED fnVars
    /\ UNCHANGED <<cookieFaults, navigated, sessions>>
    /\ UNCHANGED runVars
    /\ UNCHANGED strategyCalls

\* lines 386-387
FindElements ==
    /\ pc = "find_elements"
    /\ \E page \in PagesShown :
          /\ domPage' = page
          /\ reviewElements' = find_review_elements(page)
    /\ idx' = 1
    /\ pc' = "extract"
    /\ UNCHANGED <<hashSeed, driverLive, cookieFile, cookieReads, cookieWrites, searches,
                   requests, acks, region, section, embedded, jsonReviews, domCands,
                   reviews, result, raised>>
    /\ UNCHANGED fnVars
    /\ UNCHANGED <<cookieFaults, navigated, sessions>>
    /\ UNCHANGED runVars
    /\ UNCHANGED strategyCalls

\* lines 389-398: one pass of the loop over review_elements
ExtractElement ==
    /\ pc = "extract"
    /\ idx <= Len(reviewElements)
    /\ \E cand \in {ElementCandidate(hashSeed, Containers[reviewElements[idx]])} :
          /\ domCands' = Append(domCands, cand)
          /\ reviews' = IF IsReview(cand) THEN Append(reviews, cand) ELSE reviews
    /\ strategyCalls' = Append(strategyCalls,
                               StrategyCalls(hashSeed, Containers[reviewElements[idx]]))
    /\ idx' = idx + 1
    /\ UNCHANGED <<pc, hashSeed, driverLive, cookieFile, cookieReads, cookieWrites,
                   searches, requests, acks, region, section, embedded, jsonReviews,
                   domPage, reviewElements, result, raised>>
    /\ UNCHANGED fnVars
    /\ UNCHANGED <<cookieFaults, navigated, sessions>>
    /\ UNCHANGED runVars

\* lines 400-413, after the loop
DedupReviews ==
    /\ pc = "extract"
    /\ idx > Len(reviewElements)
    /\ reviews' = IF reviews = <<>> THEN reviews ELSE Deduplicate(reviews)
    /\ pc' = "save_cookies"
    /\ UNCHANGED <<hashSeed, driverLive, cookieFile, cookieReads, cookieWrites, searches,
                   requests, acks, region, section, embedded, jsonReviews, domPage,
                   reviewElements, idx, domCands, result, raised>>
    /\ UNCHANGED fnVars
    /\ UNCHANGED <<cookieFaults, navigated, sessions>>
    /\ UNCHANGED runVars
    /\ UNCHANGED strategyCalls

\* line 415: save_cookies; its failures stay inside it
SaveCookies ==
    /\ pc = "save_cookies"
    /\ IF PersistSession /\ driverLive
       THEN \E outcome \in SaveOutcomes :
                /\ cookieWrites' = IF outcome = "saved" THEN cookieWrites + 1
                                   ELSE cookieWrites
                /\ cookieFile' = (cookieFile \/ outcome = "saved")
                /\ cookieFaults' = IF outcome = "saved" THEN cookieFaults
                                   ELSE cookieFaults \cup {"save"}
       ELSE UNCHANGED <<cookieWrites, cookieFile, cookieFaults>>
    /\ pc' = "finally"
    /\ UNCHANGED <<hashSeed, driverLive, cookieReads, searches, requests, acks, region,
                   section, embedded, jsonReviews, domPage, reviewElements, idx,
                   domCands, reviews, result, raised>>
    /\ UNCHANGED fnVars
    /\ UNCHANGED <<navigated, sessions>>
    /\ UNCHANGED runVars
    /\ UNCHANGED strategyCalls

\* lines 417-418: except Exception: the error is logged
HandleException ==
    /\ pc = "except"
    /\ pc' = "finally"
    /\ UNCHANGED <<hashSeed, driverLive, cookieFile, cookieReads, cookieWrites, searches,
                   requests, acks, region, section, embedded, jsonReviews, domPage,
                   reviewElements, idx, domCands, reviews, result, raised>>
    /\ UNCHANGED fnVars
    /\ UNCHANGED <<cookieFaults, navigated, sessions>>
    /\ UNCHANGED runVars
    /\ UNCHANGED strategyCalls

\* lines 420-424: the driver is quit and reviews is returned
Finally ==
    /\ pc = "finally"
    /\ driverLive' = FALSE
    /\ sessions' = IF driverLive THEN sessions - 1 ELSE sessions
    /\ result' = reviews
    /\ pc' = "returned"
    /\ UNCHANGED <<hashSeed, cookieFile, cookieReads, cookieWrites, searches, requests,
                   acks, region, section, embedded, jsonReviews, domPage, reviewElements,
                   idx, domCands, reviews, raised>>
    /\ UNCHANGED fnVars
    /\ UNCHANGED <<cookieFaults, navigated>>
    /\ UNCHANGED runVars
    /\ UNCHANGED strategyCalls

Next ==
    \/ SetupDriver
    \/ LoadCookies
    \/ Navigate
    \/ FindSection1
    \/ RequestResume
    \/ OperatorAck
    \/ InputFails
    \/ FindSection2
    \/ ScrollToLoad
    \/ ExtractEmbedded
    \/ FindElements
    \/ ExtractElement
    \/ DedupReviews
    \/ SaveCookies
    \/ HandleException
    \/ Finally

Spec == Init /\ [][Next]_vars

----------------------------------------------------------------------------
(* Vocabulary of the properties                                            *)

\* the candidates the strategies produced, in the order they were appended
Candidates == jsonReviews \o SelectSeq(domCands, IsReview)

IdsOf(rs) == {rs[k].review_id : k \in 1..Len(rs)}

NoDuplicateIds(rs) ==
    \A i, j \in 1..Len(rs) : rs[i].review_id = rs[j].review_id => i = j

Returned == pc = "returned"

\* the strategies have run to the end and the merged list has been deduplicated
Merged == pc \in {"save_cookies", "finally", "returned"} /\ region = "Found"

\* C1: the returned list has no two records with the same review_id and has
\* exactly one record for each distinct review_id among the candidates, on
\* every path by which the call returns.
C1_UniqueIds ==
    Returned =>
        /\ NoDuplicateIds(result)
        /\ IdsOf(result) = IdsOf(Candidates)
        /\ Len(result) = Cardinality(IdsOf(Candidates))

\* three candidates, two of them with one identity, returned as two records
C1_Witness ==
    /\ Returned
    /\ Len(Candidates) = 3
    /\ Cardinality(IdsOf(Candidates)) = 2
    /\ Len(result) = 2

\* The validation predicate of the specification (validate_review_data).
ValidReview(r) ==
    /\ r.product_url # <<>>
    /\ r.reviewer_name # <<>>
    /\ r.review_text # <<>>
    /\ Len(r.review_text) >= MinReviewText

\* C2: every returned record passes the validation predicate (product_url,
\* reviewer_name and review_text present, review_text of at least 10
\* characters); a failing candidate is dropped without an error.
C2_AllValid ==
    Returned => /\ ~raised
                /\ \A k \in 1..Len(result) : ValidReview(result[k])

\* C3: per product the region search runs at most twice and the resume
\* request is issued at most once; the request is issued exactly when the
\* first search matched nothing, the second search runs only after the
\* acknowledgement, and after it the state is Found or Empty for good.
C3_BoundedRecovery ==
    /\ searches <= 2
    /\ requests <= 1
    /\ acks <= requests
    /\ (requests = 1) <=> (searches >= 1 /\ pc # "request"
                             /\ (searches = 2 \/ region = "Suspected"))
    /\ (searches = 1 /\ region = "Found") => requests = 0
    /\ (pc = "search2" \/ searches = 2) => acks = 1
    /\ searches = 2 => /\ region \in {"Found", "Empty"}
                       /\ pc \notin {"search1", "request", "waiting", "search2"}

\* the retry happened, after one request and one acknowledgement
C3_Witness ==
    /\ Returned
    /\ searches = 2
    /\ requests = 1
    /\ acks = 1
    /\ region = "Found"

StrategiesRan == embedded # Unread \/ domPage # <<>> \/ domCands # <<>>
StrategiesCompleted ==
    embedded # Unread /\ domPage # <<>> /\ Len(domCands) = Len(reviewElements)

\* C4: the strategies run if and only if the region search ended in Found;
\* when the retry finds no region either, the call returns an empty list,
\* raises nothing and runs no strategy.
C4_StrategiesIffFound ==
    /\ StrategiesRan => region = "Found"
    /\ (Returned /\ region = "Found") => StrategiesCompleted
    /\ (Returned /\ region = "Empty") =>
            /\ result = <<>>
            /\ ~raised
            /\ ~StrategiesRan

\* the product ended in Empty after the retry
C4_Witness ==
    /\ Returned
    /\ region = "Empty"
    /\ searches = 2
    /\ result = <<>>

FirstIndexOf(rs, id) == CHOOSE i \in 1..Len(rs) :
    /\ rs[i].review_id = id
    /\ \A j \in 1..Len(rs) : rs[j].review_id = id => i <= j

LastIndexOf(rs, id) == CHOOSE i \in 1..Len(rs) :
    /\ rs[i].review_id = id
    /\ \A j \in 1..Len(rs) : rs[j].review_id = id => j <= i

\* C5: candidates are merged embedded-data first, then DOM candidates in
\* container order; of two candidates with one review_id the later one is the
\* record kept, and the output is in order of first insertion of each id.
C5_MergeOrder ==
    /\ (pc = "extract" /\ region = "Found") =>
            /\ reviews = Candidates
            /\ \A k \in 1..Len(domCands) :
                  domCands[k] = ElementCandidate(hashSeed, Containers[reviewElements[k]])
    /\ Merged =>
            /\ \A k \in 1..Len(reviews) :
                  reviews[k] = Candidates[LastIndexOf(Candidates, reviews[k].review_id)]
            /\ \A i, j \in 1..Len(reviews) :
                  i < j => FirstIndexOf(Candidates, reviews[i].review_id)
                             < FirstIndexOf(Candidates, reviews[j].review_id)

\* a DOM candidate replaced an embedded-data candidate, in the latter's place,
\* ahead of a record inserted after it
C5_Witness ==
    /\ Returned
    /\ Len(jsonReviews) = 2
    /\ Len(result) = 2
    /\ \E k \in 1..Len(domCands) :
          /\ IsReview(domCands[k])
          /\ domCands[k].review_id = jsonReviews[1].review_id
          /\ domCands[k] # jsonReviews[1]
          /\ result[1] = domCands[k]
    /\ result[2] = jsonReviews[2]

\* the items of the review collection the embedded strategy iterated over
EmbeddedItems(e) ==
    IF e.kind # "doc" THEN <<>>
    ELSE LET review_info == find_review_info_node(e.doc)
         IN IF ~Truthy(review_info) \/ ~HasKey(review_info, "product_reviews")
            THEN <<>>
            ELSE LET pr == Get(review_info, "product_reviews")
                 IN IF pr.t = "list" THEN pr.items ELSE <<>>

\* the provider-supplied ids among them
ProvidedIds(e) ==
    {StrOf(Get(EmbeddedItems(e)[k], "review_id")) :
        k \in {n \in 1..Len(EmbeddedItems(e)) :
                  /\ EmbeddedItems(e)[n].t = "dict"
                  /\ Truthy(Get(EmbeddedItems(e)[n], "review_id"))}}

\* candidate k carries a provider-supplied id
HasProviderId(k) ==
    k <= Len(jsonReviews) /\ Candidates[k].review_id \in ProvidedIds(embedded)

SameContent(a, b) ==
    /\ a.reviewer_name = b.reviewer_name
    /\ a.review_text = b.review_text
    /\ a.review_date = b.review_date

\* C6: the review_id is the provider-supplied id when there is one, otherwise a
\* hash of (reviewer_name, review_text, review_date): two candidates without a
\* provider id that agree on the three fields have one review_id whichever
\* strategy produced them, and appear once in the returned list.
C6_ContentIdentity ==
    Returned =>
        /\ \A i, j \in 1..Len(Candidates) :
              (/\ ~HasProviderId(i)
               /\ ~HasProviderId(j)
               /\ SameContent(Candidates[i], Candidates[j]))
              => Candidates[i].review_id = Candidates[j].review_id
        /\ \A i, j \in 1..Len(result) :
              (/\ result[i].review_id \notin ProvidedIds(embedded)
               /\ result[j].review_id \notin ProvidedIds(embedded)
               /\ SameContent(result[i], result[j]))
              => i = j

\* C7: each strategy is fault-isolated: a failure inside the embedded-data
\* strategy yields an empty list and no error, and the DOM candidates of the
\* page are still returned; a failure on one container leaves the candidates
\* of the other containers in place.
C7_FaultIsolation ==
    (Returned /\ region = "Found") =>
        /\ ~raised
        /\ StrategiesCompleted
        /\ EmbeddedFailed(hashSeed, embedded) => jsonReviews = <<>>
        /\ \A k \in 1..Len(reviewElements) :
              LET cand == ElementCandidate(hashSeed, Containers[reviewElements[k]])
              IN /\ domCands[k] = cand
                 /\ IsReview(cand) => cand.review_id \in IdsOf(result)
        /\ EmbeddedFailed(hashSeed, embedded) =>
              IdsOf(result) = IdsOf(SelectSeq(domCands, IsReview))

\* the embedded strategy failed, one container failed in both extractions,
\* and the candidate of the other container is returned
C7_Witness ==
    /\ Returned
    /\ EmbeddedFailed(hashSeed, embedded)
    /\ Len(domCands) = 2
    /\ \E k \in 1..2 : ~IsReview(domCands[k])
    /\ Len(result) = 1

----------------------------------------------------------------------------
(* Functions applied on their own, over bounded inputs                     *)

\* scrape_product_reviews is not running
ScrapeIdle ==
    /\ pc = "start"
    /\ driverLive = FALSE
    /\ cookieFile = FALSE
    /\ cookieReads = 0
    /\ cookieWrites = 0
    /\ searches = 0
    /\ requests = 0
    /\ acks = 0
    /\ region = "Searching"
    /\ section = 0
    /\ embedded = Unread
    /\ jsonReviews = <<>>
    /\ domPage = <<>>
    /\ reviewElements = <<>>
    /\ idx = 0
    /\ domCands = <<>>
    /\ strategyCalls = <<>>
    /\ reviews = <<>>
    /\ result = <<>>
    /\ raised = FALSE
    /\ cookieFaults = {}
    /\ navigated = FALSE
    /\ sessions = 0
    /\ runPc = "idle"
    /\ marketIdx = 0
    /\ products = <<>>
    /\ productIdx = 0
    /\ allReviews = <<>>
    /\ foundCounts = <<>>
    /\ calls = <<>>

(* find_review_info_node over nested documents *)

RI_Empty == JDict(<<>>)
RI_A == ReviewInfoNode(<<ItemAlice>>)
RI_B == ReviewInfoNode(<<ItemProvider>>)
RI_List == JList(<<ItemAlice>>)

ReviewInfoValues == {RI_Empty, RI_A, RI_B, RI_List}

Holder(v) == JDict(<< <<"review_info", v>> >>)
HolderWith(v, n) == JDict(<< <<"review_info", v>>, <<"extra", n>> >>)
Plain == JDict(<< <<"page", JNum(1)>> >>)

DfsLeaves == {Holder(v) : v \in ReviewInfoValues} \cup {Plain, JNum(1)}

DfsLevel1 ==
    {JList(<<pr[1], pr[2]>>) : pr \in DfsLeaves \X DfsLeaves}
    \cup {JDict(<< <<"a", pr[1]>>, <<"b", pr[2]>> >>) : pr \in DfsLeaves \X DfsLeaves}
    \cup {HolderWith(pr[1], pr[2]) : pr \in ReviewInfoValues \X DfsLeaves}

DfsDocs ==
    DfsLeaves \cup DfsLevel1
    \cup {JList(<<pr[1], pr[2]>>) : pr \in DfsLevel1 \X DfsLeaves}
    \cup {Nested(v) : v \in ReviewInfoValues}

InitDFS ==
    /\ ScrapeIdle
    /\ hashSeed \in Seeds
    /\ fnPc = "dfs_call"
    /\ fnIn \in DfsDocs
    /\ fnOut = <<>>

\* review_info = self.find_review_info_node(payload), line 704
ApplyFindNode ==
    /\ fnPc = "dfs_call"
    /\ fnOut' = find_review_info_node(fnIn)
    /\ fnPc' = "dfs_done"
    /\ UNCHANGED <<scrapeVars, runVars, hashSeed, fnIn>>

NextDFS == ApplyFindNode

SpecDFS == InitDFS /\ [][NextDFS]_vars

RECURSIVE ExposingNodes(_)
RECURSIVE ExposingIn(_)

\* the nodes exposing the review_info key, in depth-first order
ExposingNodes(node) ==
    IF node.t = "dict"
    THEN (IF HasKey(node, "review_info") THEN <<node>> ELSE <<>>)
         \o ExposingIn(Values(node))
    ELSE IF node.t = "list" THEN ExposingIn(node.items)
    ELSE <<>>

ExposingIn(nodes) ==
    IF nodes = <<>> THEN <<>>
    ELSE ExposingNodes(Head(nodes)) \o ExposingIn(Tail(nodes))

\* C8: find_review_info_node returns the review_info value of the first node,
\* in depth-first order, that exposes the key, whatever that value is, and
\* nothing only when no node exposes it.
C8_FirstInDfsOrder ==
    fnPc = "dfs_done" =>
        fnOut = IF ExposingNodes(fnIn) = <<>> THEN JNull
                ELSE Get(Head(ExposingNodes(fnIn)), "review_info")

(* find_review_elements over pages *)

\* At most MaxPageElems elements on a page.
MaxPageElems == 3

\* selectors of find_review_elements that match something on the pages
ProbedSelectors == {1, 4, 8}

ElemPages ==
    {[i \in 1..NumElementSelectors |->
        IF i \in ProbedSelectors THEN SetToSeq(m[i]) ELSE <<>>] :
     m \in [ProbedSelectors -> SUBSET (1..MaxPageElems)]}

InitElems ==
    /\ ScrapeIdle
    /\ hashSeed \in Seeds
    /\ fnPc = "elems_call"
    /\ fnIn \in ElemPages
    /\ fnOut = <<>>

\* review_elements = self.find_review_elements(), line 386
ApplyFindElements ==
    /\ fnPc = "elems_call"
    /\ fnOut' = find_review_elements(fnIn)
    /\ fnPc' = "elems_done"
    /\ UNCHANGED <<scrapeVars, runVars, hashSeed, fnIn>>

NextElems == ApplyFindElements

SpecElems == InitElems /\ [][NextElems]_vars

Yielding(page) == {i \in 1..NumElementSelectors : page[i] # <<>>}
FirstYielding(page) == CHOOSE i \in Yielding(page) : \A j \in Yielding(page) : i <= j
ElemsOf(seq) == {seq[k] : k \in 1..Len(seq)}
Matched(page) == UNION {ElemsOf(page[i]) : i \in 1..NumElementSelectors}
FirstSelectorOf(page, el) ==
    CHOOSE i \in 1..NumElementSelectors :
        /\ el \in ElemsOf(page[i])
        /\ \A j \in 1..NumElementSelectors : el \in ElemsOf(page[j]) => i <= j
PositionIn(seq, el) == CHOOSE k \in 1..Len(seq) : seq[k] = el

\* C9 as stated: the containers processed are exactly the elements of the
\* first selector pattern that yields any, and no others.
C9_FirstYieldingOnly ==
    fnPc = "elems_done" =>
        fnOut = IF Yielding(fnIn) = {} THEN <<>> ELSE fnIn[FirstYielding(fnIn)]

\* C9 amended: every pattern of the list is tried; the containers processed
\* are the elements matched by any pattern, each once, ordered by the first
\* pattern that matches them and then by their order under that pattern.
C9_UnionOfAllPatterns ==
    fnPc = "elems_done" =>
        /\ ElemsOf(fnOut) = Matched(fnIn)
        /\ Len(fnOut) = Cardinality(Matched(fnIn))
        /\ \A i, j \in 1..Len(fnOut) :
              i < j =>
                LET si == FirstSelectorOf(fnIn, fnOut[i])
                    sj == FirstSelectorOf(fnIn, fnOut[j])
                IN \/ si < sj
                   \/ /\ si = sj
                      /\ PositionIn(fnIn[si], fnOut[i]) < PositionIn(fnIn[si], fnOut[j])

\* an element matched only by a later pattern is among the containers
C9_Witness ==
    /\ fnPc = "elems_done"
    /\ fnIn[1] = <<2>>
    /\ fnIn[8] = <<1, 2, 3>>
    /\ fnOut = <<2, 1, 3>>

(* extract_review_info over containers *)

\* What the three selectors of a text field can find.
TextMatches ==
    {NoMatch,
     First(Elem(<<SPACE>> \o N_Alice)),
     <<NoElem, Elem(T_Great \o <<NEWLINE>>), Elem(T_Short)>>,
     <<Elem(N_Bob), NoElem, Elem(D_Aug)>>}

\* What the three selectors of the rating can find.
RatingMatches ==
    {NoMatch,
     First(ElemAttr(R_FiveStars, R_Five)),
     <<NoElem, Elem(R_FiveStars), ElemAttr(R_FiveStars, R_Five)>>,
     \* data-rating="" : the attribute is there and holds the empty string
     Second(ElemAttr(<<SPACE>> \o R_FiveStars, <<>>))}

FieldContainers ==
    {Container(m[1], r, m[2], m[3], m[4], <<>>, FALSE, FALSE) :
        <<m, r>> \in [1..4 -> TextMatches] \X RatingMatches}

InitFields ==
    /\ ScrapeIdle
    /\ hashSeed \in Seeds
    /\ fnPc = "fields_call"
    /\ fnIn \in FieldContainers
    /\ fnOut = <<>>

\* review = self.extract_review_info(element, product), line 390
ApplyExtractReviewInfo ==
    /\ fnPc = "fields_call"
    /\ fnOut' = extract_review_info(hashSeed, fnIn)
    /\ fnPc' = "fields_done"
    /\ UNCHANGED <<scrapeVars, runVars, hashSeed, fnIn>>

NextFields == ApplyExtractReviewInfo

SpecFields == InitFields /\ [][NextFields]_vars

Matches(m) == \E i \in 1..Len(m) : m[i].present
FirstMatch(m) == m[CHOOSE i \in 1..Len(m) : m[i].present /\ \A j \in 1..(i - 1) : ~m[j].present]

\* the value a text field must take from its own selector list
ExpectedText(m, sentinel) ==
    IF Matches(m) THEN Strip(FirstMatch(m).text) ELSE sentinel

\* the container with every field but one unresolved
OnlyName(c) == [Container(NoMatch, NoMatch, NoMatch, NoMatch, NoMatch, <<>>, FALSE, FALSE)
                    EXCEPT !.name = c.name]
OnlyRating(c) == [OnlyName(c) EXCEPT !.name = NoMatch, !.rating = c.rating]
OnlyText(c) == [OnlyName(c) EXCEPT !.name = NoMatch, !.text = c.text]
OnlyDate(c) == [OnlyName(c) EXCEPT !.name = NoMatch, !.date = c.date]
OnlyHelpful(c) == [OnlyName(c) EXCEPT !.name = NoMatch, !.helpful = c.helpful]

\* C10: each field is resolved through its own ordered selector list: its
\* value comes from the first pattern that matches, later patterns are not
\* consulted, an unmatched field takes its sentinel ("Anonymous", "N/A",
\* "N/A", "0"), and the value of a field does not depend on the other fields.
C10_FieldResolution ==
    fnPc = "fields_done" =>
        /\ fnOut.reviewer_name = ExpectedText(fnIn.name, S_Anonymous)
        /\ fnOut.review_text = ExpectedText(fnIn.text, <<>>)
        /\ fnOut.review_date = ExpectedText(fnIn.date, S_NA)
        /\ fnOut.helpful_votes = ExpectedText(fnIn.helpful, S_Zero)
        /\ fnOut.rating =
              IF ~Matches(fnIn.rating) THEN S_NA
              ELSE IF Truthy(FirstMatch(fnIn.rating).attr)
                   THEN FirstMatch(fnIn.rating).attr.v
                   ELSE Strip(FirstMatch(fnIn.rating).text)
        /\ fnOut.reviewer_name = extract_review_info(hashSeed, OnlyName(fnIn)).reviewer_name
        /\ fnOut.rating = extract_review_info(hashSeed, OnlyRating(fnIn)).rating
        /\ fnOut.review_text = extract_review_info(hashSeed, OnlyText(fnIn)).review_text
        /\ fnOut.review_date = extract_review_info(hashSeed, OnlyDate(fnIn)).review_date
        /\ fnOut.helpful_votes = extract_review_info(hashSeed, OnlyHelpful(fnIn)).helpful_votes

\* the text taken from the second pattern though the third matches too, the
\* name, rating and date left at their sentinels, the helpful count resolved
C10_Witness ==
    /\ fnPc = "fields_done"
    /\ fnIn.text = <<NoElem, Elem(T_Great \o <<NEWLINE>>), Elem(T_Short)>>
    /\ fnOut.review_text = T_Great
    /\ fnIn.date = NoMatch
    /\ fnOut.review_date = S_NA
    /\ fnIn.rating = NoMatch
    /\ fnOut.rating = S_NA
    /\ fnIn.name = NoMatch
    /\ fnOut.reviewer_name = S_Anonymous
    /\ fnIn.helpful = <<Elem(N_Bob), NoElem, Elem(D_Aug)>>
    /\ fnOut.helpful_votes = N_Bob

\* the rating element the rating is read from
RatingElement(c) == FirstMatch(c.rating)

\* get_attribute('data-rating') is not None
HasRatingAttribute(e) == e.attr.t = "str"

\* C11 as stated: when a rating element is found, the rating is its
\* data-rating attribute whenever the attribute is present, and the element's
\* text only when the attribute is absent.
C11_AttributeWheneverPresent ==
    (fnPc = "fields_done" /\ Matches(fnIn.rating)) =>
        fnOut.rating = IF HasRatingAttribute(RatingElement(fnIn))
                       THEN RatingElement(fnIn).attr.v
                       ELSE Strip(RatingElement(fnIn).text)

\* C11 amended: when a rating element is found, the rating is its data-rating
\* attribute whenever the attribute is present and not empty, and the
\* element's trimmed text when the attribute is absent or empty.
C11_AttributeWhenNotEmpty ==
    (fnPc = "fields_done" /\ Matches(fnIn.rating)) =>
        fnOut.rating = IF /\ HasRatingAttribute(RatingElement(fnIn))
                          /\ RatingElement(fnIn).attr.v # <<>>
                       THEN RatingElement(fnIn).attr.v
                       ELSE Strip(RatingElement(fnIn).text)

\* attribute "5" on an element whose text is "5 stars": the rating is "5"
C11_Witness ==
    /\ fnPc = "fields_done"
    /\ Matches(fnIn.rating)
    /\ RatingElement(fnIn) = ElemAttr(R_FiveStars, R_Five)
    /\ fnOut.rating = R_Five

----------------------------------------------------------------------------
(* The free-text fallback inside the extraction loop                       *)

\* the structured strategy handed back a record whose review text is usable
StructuredUsable(seed, element) ==
    LET review == extract_review_info(seed, element)
    IN IsReview(review) /\ Len(review.review_text) >= MinReviewText

\* C12: the fallback is invoked per container, after the structured strategy
\* has been tried on that container, and only for a container on which the
\* structured strategy did not produce usable review text; it is never
\* invoked for a container whose structured extraction produced usable text.
C12_FallbackAfterStructured ==
    /\ Len(strategyCalls) = Len(domCands)
    /\ Len(strategyCalls) <= Len(reviewElements)
    /\ (Returned /\ region = "Found") => Len(strategyCalls) = Len(reviewElements)
    /\ pc \in {"extract", "returned"} =>
          \A k \in 1..Len(strategyCalls) :
             LET usable == StructuredUsable(hashSeed, Containers[reviewElements[k]])
             IN /\ strategyCalls[k] \in {<<"structured">>, <<"structured", "fallback">>}
                /\ strategyCalls[k] = <<"structured", "fallback">> => ~usable
                /\ usable => strategyCalls[k] = <<"structured">>

\* of two containers, the one with usable structured text went through the
\* structured strategy alone and the other one through the fallback as well
C12_Witness ==
    /\ Returned
    /\ Len(strategyCalls) = 2
    /\ StructuredUsable(hashSeed, Containers[reviewElements[1]])
    /\ strategyCalls[1] = <<"structured">>
    /\ strategyCalls[2] = <<"structured", "fallback">>
    /\ IsReview(domCands[2])

\* the structured selectors resolve the container's review text
StructuredKind(c) ==
    /\ ~c.structRaises
    /\ Matches(c.text)
    /\ Len(Strip(FirstMatch(c.text).text)) >= MinReviewText

\* no structured selector matches in the container; its visible text has a
\* line of usable length
VisibleTextKind(c) ==
    /\ ~Matches(c.name) /\ ~Matches(c.rating) /\ ~Matches(c.text)
    /\ ~Matches(c.date) /\ ~Matches(c.helpful)
    /\ ~c.textRaises
    /\ Len(Strip(c.visible)) >= FallbackMinText
    /\ \E k \in 1..Len(StripNonEmpty(SplitLines(Strip(c.visible), <<>>))) :
          Len(StripNonEmpty(SplitLines(Strip(c.visible), <<>>))[k]) >= MinReviewText

\* the page of the end-to-end scenario: no embedded data, the region matched
\* by the 3rd region selector, two containers, one of each kind
EndToEndPage ==
    /\ region = "Found"
    /\ section = 3
    /\ embedded = ScriptAbsent
    /\ Len(reviewElements) = 2
    /\ \E i, j \in 1..2 :
          /\ i # j
          /\ StructuredKind(Containers[reviewElements[i]])
          /\ VisibleTextKind(Containers[reviewElements[j]])

\* C13: on the page of the end-to-end scenario the call returns exactly two
\* validated records, in container order: the structured record of the
\* container whose text the selectors resolve and the fallback record of the
\* container that has only visible text, no field of either left empty.
C13_EndToEnd ==
    (Returned /\ EndToEndPage) =>
        /\ ~raised
        /\ Len(result) = 2
        /\ \A k \in 1..Len(result) :
              /\ ValidReview(result[k])
              /\ \A f \in DOMAIN result[k] : result[k][f] # <<>>
              /\ LET c == Containers[reviewElements[k]]
                 IN result[k] = IF StructuredKind(c)
                                THEN extract_review_info(hashSeed, c)
                                ELSE extract_review_info_fallback(hashSeed, c)

(* extract_review_info_fallback over visible texts *)

T_Nice == <<78, 105, 99, 101, 32, 112, 114, 111, 100, 117, 99, 116, 33, 33>>  \* "Nice product!!"
T_Nine == <<86, 101, 114, 121, 32, 103, 111, 111, 100>>    \* "Very good"
T_Ten == <<71, 111, 111, 100, 32, 115, 116, 117, 102, 102>>  \* "Good stuff"

\* The lines a container's visible text can be made of.
RawLines ==
    {<<>>, <<SPACE>>, N_Bob, <<SPACE>> \o N_Alice \o <<SPACE>>, T_Short, T_Nine, T_Ten,
     T_Great, <<SPACE>> \o T_Nice, T_Love}

\* At most MaxLines lines in a visible text.
MaxLines == 3

VisibleLines == UNION {[1..n -> RawLines] : n \in 0..MaxLines}

\* element.text: the lines separated by line breaks
RECURSIVE JoinLines(_)
JoinLines(ls) ==
    IF ls = <<>> THEN <<>>
    ELSE IF Len(ls) = 1 THEN Head(ls)
    ELSE Head(ls) \o <<NEWLINE>> \o JoinLines(Tail(ls))

\* a container nothing is known of but its visible text
VisibleContainer(text) ==
    Container(NoMatch, NoMatch, NoMatch, NoMatch, NoMatch, text, TRUE, FALSE)

InitFallback ==
    /\ ScrapeIdle
    /\ hashSeed \in Seeds
    /\ fnPc = "fallback_call"
    /\ fnIn \in VisibleLines
    /\ fnOut = <<>>

\* fallback_review = self.extract_review_info_fallback(element, product), line 396
ApplyFallback ==
    /\ fnPc = "fallback_call"
    /\ fnOut' = extract_review_info_fallback(hashSeed, VisibleContainer(JoinLines(fnIn)))
    /\ fnPc' = "fallback_done"
    /\ UNCHANGED <<scrapeVars, runVars, hashSeed, fnIn>>

\* the same call on an element whose text cannot be read: element.text raises
\* (line 617) and the except clause of lines 642-644 returns None
ApplyFallbackUnreadable ==
    /\ fnPc = "fallback_call"
    /\ fnOut' = extract_review_info_fallback(
                    hashSeed, [VisibleContainer(JoinLines(fnIn)) EXCEPT !.textRaises = TRUE])
    /\ fnPc' = "fallback_raised"
    /\ UNCHANGED <<scrapeVars, runVars, hashSeed, fnIn>>

NextFallback ==
    \/ ApplyFallback
    \/ ApplyFallbackUnreadable

SpecFallback == InitFallback /\ [][NextFallback]_vars

NotEmpty(l) == l # <<>>

\* the non-empty trimmed lines of a visible text given by its lines
TrimmedLines(ls) == SelectSeq([k \in 1..Len(ls) |-> Strip(ls[k])], NotEmpty)

\* the longest of them, the earliest one on ties
EarliestLongest(tl) ==
    tl[CHOOSE i \in 1..Len(tl) :
          \A j \in 1..Len(tl) :
              (Len(tl[j]) <= Len(tl[i])) /\ (j < i => Len(tl[j]) < Len(tl[i]))]

\* C14: a record returned by extract_review_info_fallback has the longest
\* non-empty trimmed line of the visible text as review_text (the earliest one
\* on ties) and the first such line as reviewer_name, and its review_text is
\* never shorter than 10 characters.
C14_LongestLineFirstLine ==
    (fnPc = "fallback_done" /\ IsReview(fnOut)) =>
        /\ TrimmedLines(fnIn) # <<>>
        /\ fnOut.review_text = EarliestLongest(TrimmedLines(fnIn))
        /\ fnOut.reviewer_name = TrimmedLines(fnIn)[1]
        /\ Len(fnOut.review_text) >= MinReviewText

\* two longest lines of one length after the name: the earlier one is taken
C14_Witness ==
    /\ fnPc = "fallback_done"
    /\ fnIn = <<N_Bob, T_Great, <<SPACE>> \o T_Nice>>
    /\ IsReview(fnOut)
    /\ fnOut.review_text = T_Great
    /\ fnOut.reviewer_name = N_Bob

(* extract_reviews_from_embedded_json over items *)

R_FourHalf == <<52, 46, 53>>                               \* "4.5"

\* a key the item does not have
Absent == [t |-> "absent"]

Field(key, v) == IF v = Absent THEN <<>> ELSE << <<key, v>> >>

\* The items of the review collection: per key, the key is missing or holds
\* one of a few values.
Items ==
    {JDict(Field("review_id", id) \o Field("review_text", text)
           \o Field("reviewer_name", name) \o Field("review_rating", rating)
           \o Field("review_time", time) \o Field("is_verified_purchase", flag)) :
        <<id, text, name, rating, time, flag>> \in
            {Absent, JStr(P_77)}
            \X {JStr(T_Great), JStr(<<SPACE>> \o T_Love)}
            \X {Absent, JStr(<<>>), JStr(N_Alice)}
            \X {Absent, JNull, JNum(5), JStr(R_FourHalf)}
            \X {Absent, JNum(86400000)}
            \X {Absent, JNull, JBool(TRUE), JBool(FALSE)}}

InitItems ==
    /\ ScrapeIdle
    /\ hashSeed \in Seeds
    /\ fnPc = "items_call"
    /\ fnIn \in Items
    /\ fnOut = <<>>

\* json_reviews = self.extract_reviews_from_embedded_json(product), line 380,
\* on a page whose script node holds one item
ApplyExtractEmbedded ==
    /\ fnPc = "items_call"
    /\ fnOut' = extract_reviews_from_embedded_json(
                    hashSeed, ScriptDoc(Nested(ReviewInfoNode(<<fnIn>>))))
    /\ fnPc' = "items_done"
    /\ UNCHANGED <<scrapeVars, runVars, hashSeed, fnIn>>

(* the three strategies, each applied on its own *)

InitStrategies == InitItems \/ InitFields \/ InitFallback

NextStrategies ==
    \/ ApplyExtractEmbedded
    \/ ApplyExtractReviewInfo
    \/ ApplyFallback

SpecStrategies == InitStrategies /\ [][NextStrategies]_vars

----------------------------------------------------------------------------
(* Sentinels                                                               *)

\* the field holds a value: it is not empty and not the rendering of a null
FieldFilled(v) == v # <<>> /\ v # S_None

\* C16: every field of every returned record holds a resolved value or its
\* sentinel ("N/A", "Anonymous", "0"): no field is absent, null or empty,
\* whichever strategy produced the record.
C16_NoEmptyField ==
    Returned =>
        \A k \in 1..Len(result) :
            /\ DOMAIN result[k] =
                  {"product_url", "product_name", "reviewer_name", "rating",
                   "review_text", "review_date", "verified_purchase", "helpful_votes",
                   "review_id", "country_market", "scrape_timestamp"}
            /\ \A f \in DOMAIN result[k] : FieldFilled(result[k][f])

----------------------------------------------------------------------------
(* The cookie store                                                        *)

\* the candidates of a page's containers, in the order find_review_elements
\* gives them
DomCandidatesOf(page) ==
    LET els == find_review_elements(page)
    IN SelectSeq([k \in 1..Len(els) |-> ElementCandidate(hashSeed, Containers[els[k]])],
                 IsReview)

\* what the call returns for the page it was shown, the cookie store left aside
ReviewsOfPage ==
    IF region # "Found" THEN <<>>
    ELSE LET merged == extract_reviews_from_embedded_json(hashSeed, embedded)
                         \o DomCandidatesOf(domPage)
         IN IF merged = <<>> THEN <<>> ELSE Deduplicate(merged)

\* C18: a failure reading or writing the cookie store is recovered locally:
\* the call does not raise, it goes on to the navigation and to the end of the
\* session, and the list it returns is the one the page gives without the
\* failure.
C18_CookieFailureLocal ==
    cookieFaults # {} =>
        /\ ~raised
        /\ pc # "raised"
        /\ ("load" \in cookieFaults /\ pc # "navigate") => navigated
        /\ "save" \in cookieFaults => (pc \in {"finally", "returned"} /\ region = "Found")
        /\ Returned => result = ReviewsOfPage

\* the cookies could be neither loaded nor saved, and reviews are returned
C18_Witness ==
    /\ Returned
    /\ cookieFaults = {"load", "save"}
    /\ result # <<>>

\* C19: with session persistence enabled the cookie store is read once at
\* session start, before the navigation, when a cookie file exists, and
\* written once at session end, after deduplication and before the driver is
\* quit; the write happens for every processed product, whatever the outcome
\* (Found or Empty) of its region search.
C19_ReadOnceWriteOnce ==
    PersistSession =>
        /\ cookieReads <= 1
        /\ cookieWrites <= 1
        /\ cookieReads = 1 => (cookieFile /\ pc \notin {"start", "load_cookies"})
        /\ (pc = "navigate" /\ cookieFile /\ cookieFaults = {}) => cookieReads = 1
        /\ cookieWrites = 1 => (pc \in {"finally", "returned"} /\ Merged)
        /\ (pc = "finally" /\ cookieWrites = 1) => driverLive
        /\ (Returned /\ region \in {"Found", "Empty"} /\ cookieFaults = {}) =>
              cookieWrites = 1

----------------------------------------------------------------------------
(* run_complete_scraping: the markets, the search of each, the products    *)

\* At most MaxProducts products found per market.
MaxProducts == 2

\* the locals of one call of scrape_product_reviews
callVars == <<cookieReads, cookieWrites, searches, requests, acks, region, section,
              embedded, jsonReviews, domPage, reviewElements, idx, domCands,
              strategyCalls, reviews, result, raised, cookieFaults, navigated>>

InitRun ==
    /\ pc = "uncalled"
    /\ hashSeed \in Seeds
    /\ driverLive = FALSE
    /\ cookieFile \in BOOLEAN
    /\ cookieReads = 0
    /\ cookieWrites = 0
    /\ searches = 0
    /\ requests = 0
    /\ acks = 0
    /\ region = "Searching"
    /\ section = 0
    /\ embedded = Unread
    /\ jsonReviews = <<>>
    /\ domPage = <<>>
    /\ reviewElements = <<>>
    /\ idx = 0
    /\ domCands = <<>>
    /\ strategyCalls = <<>>
    /\ reviews = <<>>
    /\ result = <<>>
    /\ raised = FALSE
    /\ cookieFaults = {}
    /\ navigated = FALSE
    /\ sessions = 0
    /\ runPc = "next_market"
    /\ marketIdx = 1
    /\ products = <<>>
    /\ productIdx = 0
    /\ allReviews = <<>>
    /\ foundCounts = <<>>
    /\ calls = <<>>
    /\ fnPc = "none"
    /\ fnIn = <<>>
    /\ fnOut = <<>>

\* line 159: self.driver = self.setup_driver(market), outside the try of
\* search_lancome_products; its exception reaches the except of line 814
SearchSetupDriver ==
    /\ runPc = "next_market"
    /\ marketIdx <= Len(RunMarkets)
    /\ \/ /\ driverLive' = TRUE
          /\ sessions' = sessions + 1
          /\ runPc' = "search"
          /\ foundCounts' = foundCounts
       \/ /\ driverLive' = FALSE
          /\ sessions' = sessions
          /\ runPc' = "market_except"
          /\ foundCounts' = Append(foundCounts, [path |-> "setup_failed", count |-> 0])
    /\ products' = <<>>
    /\ productIdx' = 0
    /\ UNCHANGED <<pc, cookieFile, callVars, hashSeed, marketIdx, allReviews, calls>>
    /\ UNCHANGED fnVars

\* a search whose page-source fallback returns past the finally clause
SearchProducts_SourceKeepsDriver ==
    /\ runPc = "search"
    /\ \E path \in {"cards", "source", "exception"} :
       \E n \in 0..MaxProducts :
          /\ path = "exception" => n = 0
          /\ products' = [i \in 1..n |-> i]
          /\ foundCounts' = Append(foundCounts, [path |-> path, count |-> n])
          /\ runPc' = IF path = "source" THEN "next_product" ELSE "search_finally"
          /\ productIdx' = IF path = "source" THEN 1 ELSE productIdx
    /\ UNCHANGED <<pc, driverLive, sessions, cookieFile, callVars, hashSeed, marketIdx,
                   allReviews, calls>>
    /\ UNCHANGED fnVars

\* lines 161-214, the try block of search_lancome_products: the product cards
\* give n products, or no card is found and parse_products_from_source gives
\* n products (line 202), or an exception is caught (line 214) with none
SearchProducts ==
    /\ runPc = "search"
    /\ \E path \in {"cards", "source", "exception"} :
       \E n \in 0..MaxProducts :
          /\ path = "exception" => n = 0
          /\ products' = [i \in 1..n |-> i]
          /\ foundCounts' = Append(foundCounts, [path |-> path, count |-> n])
    /\ runPc' = "search_finally"
    /\ UNCHANGED <<pc, driverLive, sessions, cookieFile, callVars, hashSeed, marketIdx,
                   productIdx, allReviews, calls>>
    /\ UNCHANGED fnVars

\* lines 217-221: the driver is quit and products is returned
SearchFinally ==
    /\ runPc = "search_finally"
    /\ driverLive' = FALSE
    /\ sessions' = IF driverLive THEN sessions - 1 ELSE sessions
    /\ runPc' = "next_product"
    /\ productIdx' = 1
    /\ UNCHANGED <<pc, cookieFile, callVars, hashSeed, marketIdx, products, allReviews,
                   foundCounts, calls>>
    /\ UNCHANGED fnVars

\* the locals of a call that has not begun or is over
FreshLocals ==
    /\ cookieReads' = 0
    /\ cookieWrites' = 0
    /\ searches' = 0
    /\ requests' = 0
    /\ acks' = 0
    /\ region' = "Searching"
    /\ section' = 0
    /\ embedded' = Unread
    /\ jsonReviews' = <<>>
    /\ domPage' = <<>>
    /\ reviewElements' = <<>>
    /\ idx' = 0
    /\ domCands' = <<>>
    /\ strategyCalls' = <<>>
    /\ reviews' = <<>>
    /\ result' = <<>>
    /\ raised' = FALSE
    /\ cookieFaults' = {}
    /\ navigated' = FALSE

\* lines 806-807: reviews = self.scrape_product_reviews(product) is entered
CallScrapeProductReviews ==
    /\ runPc = "next_product"
    /\ productIdx <= Len(products)
    /\ runPc' = "scrape"
    /\ pc' = "start"
    /\ UNCHANGED callVars
    /\ UNCHANGED <<driverLive, sessions, cookieFile, hashSeed, marketIdx, products,
                   productIdx, allReviews, foundCounts, calls>>
    /\ UNCHANGED fnVars

\* lines 807-812: the call returned; all_reviews.extend(reviews), the delay
CollectReviews ==
    /\ runPc = "scrape"
    /\ pc = "returned"
    /\ allReviews' = allReviews \o result
    /\ calls' = Append(calls, [market |-> marketIdx, product |-> products[productIdx],
                               outcome |-> "returned", reviews |-> result])
    /\ productIdx' = productIdx + 1
    /\ runPc' = "next_product"
    /\ pc' = "uncalled"
    /\ FreshLocals
    /\ UNCHANGED <<driverLive, sessions, cookieFile, hashSeed, marketIdx, products,
                   foundCounts>>
    /\ UNCHANGED fnVars

\* the call raised: the exception leaves the loop over the products and
\* reaches the except clause of the market, line 814
ScrapeRaises ==
    /\ runPc = "scrape"
    /\ pc = "raised"
    /\ calls' = Append(calls, [market |-> marketIdx, product |-> products[productIdx],
                               outcome |-> "raised", reviews |-> <<>>])
    /\ runPc' = "market_except"
    /\ pc' = "uncalled"
    /\ FreshLocals
    /\ UNCHANGED <<driverLive, sessions, cookieFile, hashSeed, marketIdx, products,
                   productIdx, allReviews, foundCounts>>
    /\ UNCHANGED fnVars

\* an except clause that logs the error and raises it again: the exception
\* leaves run_complete_scraping, which returns nothing
MarketExcept_Reraises ==
    /\ runPc = "market_except"
    /\ runPc' = "aborted"
    /\ UNCHANGED <<pc, driverLive, sessions, cookieFile, callVars, hashSeed, marketIdx,
                   products, productIdx, allReviews, foundCounts, calls>>
    /\ UNCHANGED fnVars

\* lines 814-815: except Exception: the error is logged, the next market follows
MarketExcept ==
    /\ runPc = "market_except"
    /\ marketIdx' = marketIdx + 1
    /\ runPc' = "next_market"
    /\ UNCHANGED <<pc, driverLive, sessions, cookieFile, callVars, hashSeed, products,
                   productIdx, allReviews, foundCounts, calls>>
    /\ UNCHANGED fnVars

\* the loop over the products of the market is exhausted
NextMarket ==
    /\ runPc = "next_product"
    /\ productIdx > Len(products)
    /\ marketIdx' = marketIdx + 1
    /\ runPc' = "next_market"
    /\ UNCHANGED <<pc, driverLive, sessions, cookieFile, callVars, hashSeed, products,
                   productIdx, allReviews, foundCounts, calls>>
    /\ UNCHANGED fnVars

\* line 817: return all_reviews
ReturnAllReviews ==
    /\ runPc = "next_market"
    /\ marketIdx > Len(RunMarkets)
    /\ runPc' = "done"
    /\ UNCHANGED <<pc, driverLive, sessions, cookieFile, callVars, hashSeed, marketIdx,
                   products, productIdx, allReviews, foundCounts, calls>>
    /\ UNCHANGED fnVars

NextRun ==
    \/ SearchSetupDriver
    \/ SearchProducts
    \/ SearchFinally
    \/ CallScrapeProductReviews
    \/ SetupDriver
    \/ LoadCookies
    \/ Navigate
    \/ FindSection1
    \/ RequestResume
    \/ OperatorAck
    \/ InputFails
    \/ FindSection2
    \/ ScrollToLoad
    \/ ExtractEmbedded
    \/ FindElements
    \/ ExtractElement
    \/ DedupReviews
    \/ SaveCookies
    \/ HandleException
    \/ Finally
    \/ CollectReviews
    \/ ScrapeRaises
    \/ MarketExcept
    \/ NextMarket
    \/ ReturnAllReviews

SpecRun == InitRun /\ [][NextRun]_vars

RunDone == runPc = "done"

\* product n of market m was handed to scrape_product_reviews
Called(m, n) == \E k \in 1..Len(calls) : calls[k].market = m /\ calls[k].product = n

RECURSIVE ReviewsOfCalls(_)
ReviewsOfCalls(cs) ==
    IF cs = <<>> THEN <<>> ELSE Head(cs).reviews \o ReviewsOfCalls(Tail(cs))

\* C17: a driver-level failure while one product is processed aborts that
\* product only: when the run ends every market has been searched, every
\* product found in a market has been handed to scrape_product_reviews, and
\* the reviews returned are those of the products whose call returned.
C17_ProductFailureIsolated ==
    RunDone =>
        /\ Len(foundCounts) = Len(RunMarkets)
        /\ \A m \in 1..Len(foundCounts) :
              \A n \in 1..foundCounts[m].count : Called(m, n)
        /\ allReviews = ReviewsOfCalls(calls)

----------------------------------------------------------------------------
(* utils.normalize_rating and utils.clean_text (the Field Normalizer)      *)

S_Stars == <<32, 115, 116, 97, 114, 115>>                  \* " stars"
FilledGlyphs == {9733, 11088}                              \* the filled star glyphs
StarGlyphs == FilledGlyphs \cup {9734}                     \* and the hollow one

\* the position of the decimal point of s, 0 when it has none
PointOf(s) ==
    IF \E i \in 1..Len(s) : s[i] = 46
    THEN CHOOSE i \in 1..Len(s) : s[i] = 46 /\ \A j \in 1..(i - 1) : s[j] # 46
    ELSE 0

\* digits with at most one decimal point, and a digit before it
IsNumericLooking(s) ==
    /\ s # <<>>
    /\ \A i \in 1..Len(s) : s[i] \in 48..57 \/ i = PointOf(s)
    /\ PointOf(s) # 1

\* a number with one decimal digit: the first decimal kept, 0 when it has none
OneDecimal(s) ==
    LET p == PointOf(s)
        whole == IF p = 0 THEN s ELSE SubSeq(s, 1, p - 1)
        tenth == IF p = 0 \/ p = Len(s) THEN 48 ELSE s[p + 1]
    IN IntToStr(ParseInt(whole)) \o <<46, tenth>>

\* s is "<number> stars"
IsStarsLabel(s) ==
    /\ Len(s) > Len(S_Stars)
    /\ SubSeq(s, Len(s) - Len(S_Stars) + 1, Len(s)) = S_Stars
    /\ IsNumericLooking(SubSeq(s, 1, Len(s) - Len(S_Stars)))

IsGlyphs(s) == s # <<>> /\ \A i \in 1..Len(s) : s[i] \in StarGlyphs

FilledCount(s) == Cardinality({i \in 1..Len(s) : s[i] \in FilledGlyphs})

\* the glyph rule answers with a label that the label rule would rewrite
normalize_rating_GlyphLabel(rating) ==
    IF IsNumericLooking(rating) THEN rating
    ELSE IF IsStarsLabel(rating)
         THEN OneDecimal(SubSeq(rating, 1, Len(rating) - Len(S_Stars)))
    ELSE IF IsGlyphs(rating) THEN IntToStr(FilledCount(rating)) \o S_Stars
    ELSE IF rating = <<>> THEN S_NA
    ELSE rating

\* the label rule keeps the number as written
normalize_rating_LabelAsWritten(rating) ==
    IF IsNumericLooking(rating) THEN rating
    ELSE IF IsStarsLabel(rating) THEN SubSeq(rating, 1, Len(rating) - Len(S_Stars))
    ELSE IF IsGlyphs(rating) THEN IntToStr(FilledCount(rating))
    ELSE IF rating = <<>> THEN S_NA
    ELSE rating

\* the rating rules, in their order
normalize_rating(rating) ==
    IF IsNumericLooking(rating) THEN rating
    ELSE IF IsStarsLabel(rating)
         THEN OneDecimal(SubSeq(rating, 1, Len(rating) - Len(S_Stars)))
    ELSE IF IsGlyphs(rating) THEN IntToStr(FilledCount(rating))
    ELSE IF rating = <<>> THEN S_NA
    ELSE rating

\* At most MaxGlyphs glyphs in a rating made of star glyphs.
MaxGlyphs == 5

RatingNumbers == {<<52>>, <<53>>, <<52, 46, 53>>, <<53, 46, 48>>, <<49, 48>>, <<52, 46>>, <<48>>}

\* the ratings handed to normalize_rating: numbers, labels, glyphs, the empty
\* string and other text
RatingInputs ==
    RatingNumbers
    \cup {n \o S_Stars : n \in RatingNumbers}
    \cup UNION {[1..n -> StarGlyphs] : n \in 0..MaxGlyphs}
    \cup {<<53, 32, 115, 116, 97, 114>>, <<53, 115, 116, 97, 114, 115>>, <<97, 98, 99>>,
          <<53, 32, 111, 117, 116, 32, 111, 102, 32, 53>>, <<32, 53>>, S_NA,
          <<9733, 53>>, S_Stars}

InitRatings ==
    /\ ScrapeIdle
    /\ hashSeed \in Seeds
    /\ fnPc = "rating_call"
    /\ fnIn \in RatingInputs
    /\ fnOut = <<>>

\* normalize_rating(rating)
ApplyNormalizeRating ==
    /\ fnPc = "rating_call"
    /\ fnOut' = normalize_rating(fnIn)
    /\ fnPc' = "rating_done"
    /\ UNCHANGED <<scrapeVars, runVars, hashSeed, fnIn>>

\* re.sub of every run of whitespace by one space
RECURSIVE CollapseSpaces(_)
CollapseSpaces(s) ==
    IF s = <<>> THEN <<>>
    ELSE IF IsSpace(Head(s)) THEN <<SPACE>> \o CollapseSpaces(LStrip(s))
    ELSE <<Head(s)>> \o CollapseSpaces(Tail(s))

\* every quote character written twice
RECURSIVE DoubleQuotes(_)
DoubleQuotes(s) ==
    IF s = <<>> THEN <<>>
    ELSE IF Head(s) = 34 THEN <<34, 34>> \o DoubleQuotes(Tail(s))
    ELSE <<Head(s)>> \o DoubleQuotes(Tail(s))

\* the ends are trimmed, the runs inside are kept
clean_text_TrimOnly(text) ==
    IF ~Truthy(text) THEN <<>>
    ELSE DoubleQuotes(Strip(text.v))

\* clean_text(text): text is None or a string
clean_text(text) ==
    IF ~Truthy(text) THEN <<>>
    ELSE DoubleQuotes(Strip(CollapseSpaces(text.v)))

\* At most MaxTextLen characters in a generated text.
MaxTextLen == 4

TextChars == {SPACE, NEWLINE, 13, 97, 34}

T_HelloSpaced == <<32, 32, 72, 101, 108, 108, 111, 32, 32, 32, 87, 111, 114, 108, 100, 32, 32>>
T_HelloLines == <<72, 101, 108, 108, 111, 10, 87, 111, 114, 108, 100, 13, 10>>
T_HelloWorld == <<72, 101, 108, 108, 111, 32, 87, 111, 114, 108, 100>>
T_HeSaid ==
    <<72, 101, 32, 115, 97, 105, 100, 32, 34, 72, 101, 108, 108, 111, 32, 87, 111, 114,
      108, 100, 34>>

\* the texts handed to clean_text
CleanInputs ==
    {JNull}
    \cup {JStr(s) : s \in UNION {[1..n -> TextChars] : n \in 0..MaxTextLen}}
    \cup {JStr(T_HelloSpaced), JStr(T_HelloLines), JStr(T_HeSaid)}

InitTexts ==
    /\ ScrapeIdle
    /\ hashSeed \in Seeds
    /\ fnPc = "clean_call"
    /\ fnIn \in CleanInputs
    /\ fnOut = <<>>

\* clean_text(text)
ApplyCleanText ==
    /\ fnPc = "clean_call"
    /\ fnOut' = clean_text(fnIn)
    /\ fnPc' = "clean_done"
    /\ UNCHANGED <<scrapeVars, runVars, hashSeed, fnIn>>

InitUtils == InitRatings \/ InitTexts

NextUtils ==
    \/ ApplyNormalizeRating
    \/ ApplyCleanText

SpecUtils == InitUtils /\ [][NextUtils]_vars

\* C21: normalizing a normalized rating changes nothing:
\* normalize_rating(normalize_rating(r)) = normalize_rating(r) for every rating r.
C21_Idempotent ==
    fnPc = "rating_done" => normalize_rating(fnOut) = fnOut

\* a label was rewritten to its number, which a second pass leaves alone
C21_Witness ==
    /\ fnPc = "rating_done"
    /\ fnIn = <<53>> \o S_Stars
    /\ fnOut = <<53, 46, 48>>
    /\ normalize_rating(fnOut) = fnOut

\* the value of a number with at most one decimal digit, in tenths
Tenths(s) ==
    LET p == PointOf(s)
    IN IF p = 0 THEN 10 * ParseInt(s)
       ELSE IF p = Len(s) THEN 10 * ParseInt(SubSeq(s, 1, p - 1))
       ELSE 10 * ParseInt(SubSeq(s, 1, p - 1)) + (s[p + 1] - 48)

\* C22: a numeric-looking rating is returned unchanged ("4.5"); "<number> stars"
\* gives the number with one decimal ("5 stars" gives "5.0", "4.5 stars" gives
\* "4.5"); star glyphs give the count of the filled ones (five give "5", three
\* give "3"); the empty string gives "N/A"; anything else is returned unchanged.
C22_RulesInOrder ==
    fnPc = "rating_done" =>
        /\ IsNumericLooking(fnIn) => fnOut = fnIn
        /\ (\E n \in RatingNumbers : fnIn = n \o S_Stars) =>
               /\ Len(fnOut) >= 3
               /\ fnOut[Len(fnOut) - 1] = 46
               /\ IsDigits(SubSeq(fnOut, 1, Len(fnOut) - 2))
               /\ fnOut[Len(fnOut)] \in 48..57
               /\ Tenths(fnOut) = Tenths(SubSeq(fnIn, 1, Len(fnIn) - Len(S_Stars)))
        /\ fnIn = <<53>> \o S_Stars => fnOut = <<53, 46, 48>>
        /\ fnIn = <<52, 46, 53>> \o S_Stars => fnOut = <<52, 46, 53>>
        /\ fnIn = <<9733, 9733, 9733, 9733, 9733>> => fnOut = <<53>>
        /\ fnIn = <<11088, 11088, 11088>> => fnOut = <<51>>
        /\ (fnIn # <<>> /\ \A i \in 1..Len(fnIn) : fnIn[i] \in StarGlyphs) =>
               fnOut = IntToStr(Cardinality({i \in 1..Len(fnIn) : fnIn[i] \in FilledGlyphs}))
        /\ fnIn = <<>> => fnOut = S_NA
        /\ fnIn \in {<<97, 98, 99>>, S_NA, <<32, 53>>, <<9733, 53>>, S_Stars,
                     <<53, 32, 115, 116, 97, 114>>, <<53, 115, 116, 97, 114, 115>>,
                     <<53, 32, 111, 117, 116, 32, 111, 102, 32, 53>>} => fnOut = fnIn

\* the label of the basic test: "4.5 stars" gave "4.5"
C22_Witness ==
    /\ fnPc = "rating_done"
    /\ fnIn = <<52, 46, 53>> \o S_Stars
    /\ fnOut = <<52, 46, 53>>

Quotes(s) == Cardinality({i \in 1..Len(s) : s[i] = 34})

\* the characters of s that are not white space, in order
RECURSIVE Inked(_)
Inked(s) ==
    IF s = <<>> THEN <<>>
    ELSE IF IsSpace(Head(s)) THEN Inked(Tail(s))
    ELSE <<Head(s)>> \o Inked(Tail(s))

\* the number of maximal runs of characters that are not white space
Words(s) ==
    Cardinality({i \in 1..Len(s) : ~IsSpace(s[i]) /\ (i = 1 \/ IsSpace(s[i - 1]))})

\* C23: clean_text leaves one space for every run of white space and none at
\* the ends, writes every quote character twice, and gives the empty string for
\* None and for the empty string: its result has no white space at either end
\* and no two white space characters in a row.
C23_CleanText ==
    fnPc = "clean_done" =>
        /\ ~Truthy(fnIn) => fnOut = <<>>
        /\ fnIn = JStr(T_HelloSpaced) => fnOut = T_HelloWorld
        /\ fnIn = JStr(T_HelloLines) => fnOut = T_HelloWorld
        /\ fnOut # <<>> => ~IsSpace(fnOut[1]) /\ ~IsSpace(fnOut[Len(fnOut)])
        /\ \A i \in 1..Len(fnOut) : IsSpace(fnOut[i]) => fnOut[i] = SPACE
        /\ \A i \in 1..(Len(fnOut) - 1) : ~(IsSpace(fnOut[i]) /\ IsSpace(fnOut[i + 1]))
        /\ Truthy(fnIn) =>
               /\ Quotes(fnOut) = 2 * Quotes(fnIn.v)
               /\ Inked(fnOut) = DoubleQuotes(Inked(fnIn.v))
               /\ Words(fnOut) = Words(fnIn.v)

\* the quoted sentence of the test: both quote characters were written twice
C23_Witness ==
    /\ fnPc = "clean_done"
    /\ fnIn = JStr(T_HeSaid)
    /\ Quotes(fnOut) = 4
    /\ Len(fnOut) = Len(T_HeSaid) + 2

----------------------------------------------------------------------------
(* get_tiktok_shop_url and the market table                                *)

M_Philippines == <<112, 104, 105, 108, 105, 112, 112, 105, 110, 101, 115>>  \* 'philippines'

\* self.markets, lines 73-77
markets ==
    JDict(<< <<M_Vietnam, JStr(<<118, 110>>)>>,
             <<M_SaudiArabia, JStr(<<115, 97>>)>>,
             <<M_Philippines, JStr(<<112, 104>>)>> >>)

\* "https://shop.tiktok.com/"
S_ShopBase ==
    <<104, 116, 116, 112, 115, 58, 47, 47, 115, 104, 111, 112, 46, 116, 105, 107, 116, 111,
      107, 46, 99, 111, 109, 47>>

UrlReturned(v) == [kind |-> "returned", value |-> v]
ValueError == [kind |-> "ValueError", value |-> <<>>]

\* the test of market_code is left out: the missing code is formatted
get_tiktok_shop_url_NoTest(market) ==
    LET market_code == Get(markets, market)
    IN UrlReturned(S_ShopBase \o StrOf(market_code))

\* lines 148-153
get_tiktok_shop_url(market) ==
    LET market_code == Get(markets, market)
    IN IF ~Truthy(market_code) THEN ValueError
       ELSE UrlReturned(S_ShopBase \o StrOf(market_code))

\* At most MaxNameLen characters in a generated market name.
MaxNameLen == 2

\* the market names asked for: the registered ones, their codes, near misses
\* and every short string over the letters of the codes
MarketNames ==
    {M_Vietnam, M_SaudiArabia, M_Philippines,
     <<105, 110, 118, 97, 108, 105, 100, 95, 109, 97, 114, 107, 101, 116>>,
     <<86, 105, 101, 116, 110, 97, 109>>, <<118, 105, 101, 116, 110, 97, 109, 32>>, S_None}
    \cup UNION {[1..n -> {97, 104, 110, 112, 115, 118}] : n \in 0..MaxNameLen}

InitMarkets ==
    /\ ScrapeIdle
    /\ hashSeed \in Seeds
    /\ fnPc = "url_call"
    /\ fnIn \in MarketNames
    /\ fnOut = <<>>

\* self.get_tiktok_shop_url(market)
ApplyGetTikTokShopUrl ==
    /\ fnPc = "url_call"
    /\ fnOut' = get_tiktok_shop_url(fnIn)
    /\ fnPc' = "url_done"
    /\ UNCHANGED <<scrapeVars, runVars, hashSeed, fnIn>>

NextMarkets == ApplyGetTikTokShopUrl

SpecMarkets == InitMarkets /\ [][NextMarkets]_vars

\* C24: get_tiktok_shop_url gives "https://shop.tiktok.com/<code>" for each
\* registered market name (vietnam: .../vn, saudi_arabia: .../sa), raises
\* ValueError for every other name, and leaves the scraper as it was.
C24_MarketUrl ==
    fnPc = "url_done" =>
        /\ fnIn = M_Vietnam => fnOut = UrlReturned(S_ShopBase \o <<118, 110>>)
        /\ fnIn = M_SaudiArabia => fnOut = UrlReturned(S_ShopBase \o <<115, 97>>)
        /\ fnIn = M_Philippines => fnOut = UrlReturned(S_ShopBase \o <<112, 104>>)
        /\ fnIn \notin {M_Vietnam, M_SaudiArabia, M_Philippines} =>
               fnOut = ValueError
        /\ ScrapeIdle

\* a market code asked for as if it were a market name was refused
C24_Witness ==
    /\ fnPc = "url_done"
    /\ fnIn = <<118, 110>>
    /\ fnOut.kind = "ValueError"

----------------------------------------------------------------------------
(* Identity of the reviews across products and runs                        *)

\* C25: the list run_complete_scraping returns, gathered over all products
\* and markets of the run, holds no two records with the same review_id.
C25_RunUniqueIds ==
    RunDone => NoDuplicateIds(allReviews)

\* At most MaxRuns runs of the program, one after the other.
MaxRuns == 2

\* the first run of the program: a page that shows one container, or whose
\* embedded data hold one item
InitProcesses ==
    /\ ScrapeIdle
    /\ hashSeed \in Seeds
    /\ \/ fnPc = "element_call" /\ fnIn \in FieldContainers
       \/ fnPc = "item_call" /\ fnIn \in Items
    /\ fnOut = <<>>

\* review = self.extract_review_info(element, product), line 391
ApplyElementId ==
    /\ fnPc = "element_call"
    /\ fnOut' = Append(fnOut, extract_review_info(hashSeed, fnIn))
    /\ fnPc' = "element_done"
    /\ UNCHANGED <<scrapeVars, runVars, hashSeed, fnIn>>

\* json_reviews = self.extract_reviews_from_embedded_json(product), line 380
ApplyItemId ==
    /\ fnPc = "item_call"
    /\ fnOut' = Append(fnOut, extract_reviews_from_embedded_json(
                                  hashSeed, ScriptDoc(Nested(ReviewInfoNode(<<fnIn>>)))))
    /\ fnPc' = "item_done"
    /\ UNCHANGED <<scrapeVars, runVars, hashSeed, fnIn>>

\* the program is started again (main, lines 848-849): a new process, whose
\* str hash has a key of its own, is shown the same page
StartProcess ==
    /\ fnPc \in {"element_done", "item_done"}
    /\ Len(fnOut) < MaxRuns
    /\ hashSeed' \in Seeds
    /\ fnPc' = IF fnPc = "element_done" THEN "element_call" ELSE "item_call"
    /\ UNCHANGED <<scrapeVars, runVars, fnIn, fnOut>>

NextProcesses ==
    \/ ApplyElementId
    \/ ApplyItemId
    \/ StartProcess

SpecProcesses == InitProcesses /\ [][NextProcesses]_vars

\* C26: the same (reviewer_name, review_text, review_date) content gets the
\* same review_id in two separate runs of the program.
C26_SameIdAcrossRuns ==
    /\ fnPc = "element_done" =>
          \A a, b \in 1..Len(fnOut) :
              (IsReview(fnOut[a]) /\ IsReview(fnOut[b]) /\ SameContent(fnOut[a], fnOut[b]))
              => fnOut[a].review_id = fnOut[b].review_id
    /\ fnPc = "item_done" =>
          \A a, b \in 1..Len(fnOut) :
              \A i \in 1..Len(fnOut[a]), j \in 1..Len(fnOut[b]) :
                  SameContent(fnOut[a][i], fnOut[b][j])
                  => fnOut[a][i].review_id = fnOut[b][j].review_id

\* candidate k is backed by some record of the returned list
Survives(k) ==
    \E n \in 1..Len(result) :
        /\ result[n].review_id = Candidates[k].review_id
        /\ SameContent(result[n], Candidates[k])

\* C27: deduplication never merges distinct reviews: two candidates without a
\* provider id that differ in reviewer_name, review_text or review_date have
\* different review_ids, none of which is the provider-supplied id of another
\* candidate, so both are in the list scrape_product_reviews returns.
C27_NoMergeOfDistinct ==
    (Returned /\ region = "Found") =>
        \A i, j \in 1..Len(Candidates) :
            (/\ i # j
             /\ ~HasProviderId(i)
             /\ ~SameContent(Candidates[i], Candidates[j]))
            => /\ Candidates[i].review_id # Candidates[j].review_id
               /\ Survives(i)

----------------------------------------------------------------------------
(* What the free-text fallback discards                                    *)

LongestLineUsable(ls) ==
    /\ TrimmedLines(ls) # <<>>
    /\ Len(EarliestLongest(TrimmedLines(ls))) >= 10

\* C28 as claimed: the fallback gives a candidate for every container whose
\* longest non-empty line has at least 10 characters; nothing but a review
\* text below 10 characters makes it discard a container.
C28_DiscardsOnlyShortText ==
    (fnPc = "fallback_done" /\ LongestLineUsable(fnIn)) => IsReview(fnOut)

\* C28 as amended: the fallback gives a candidate exactly for the containers
\* whose visible text can be read, has at least 15 characters once trimmed,
\* and whose longest non-empty line has at least 10 characters.
C28_DiscardsShortTextOrLine ==
    /\ fnPc = "fallback_raised" => ~IsReview(fnOut)
    /\ fnPc = "fallback_done" =>
          (IsReview(fnOut) <=>
              (Len(Strip(JoinLines(fnIn))) >= 15 /\ LongestLineUsable(fnIn)))

\* a name and a line of 10 characters, 14 characters in all: discarded
C28_Witness ==
    /\ fnPc = "fallback_done"
    /\ fnIn = <<N_Bob, T_Ten>>
    /\ LongestLineUsable(fnIn)
    /\ ~IsReview(fnOut)

----------------------------------------------------------------------------
(* Termination                                                             *)

\* The program is one thread that executes its next statement whenever it has
\* one; every driver call returns or raises, and input() returns once the
\* operator has pressed Enter (or raises): a step that can be taken is taken.
SpecRunFair == SpecRun /\ WF_vars(NextRun)

\* the call is over: it returned a list or raised
ProductOver == pc \in {"returned", "raised"}

====
